---- MODULE Spec2Model ----
(***************************************************************************)
(* Model of src/SQLite.js: a read-only engine for the single-file page     *)
(* format.  The database file is a sequence of bytes; every decoding step  *)
(* (page header, cell pointer array, cells, records, serial types) is      *)
(* modelled on the bytes, with 0-based offsets as in the source.           *)
(***************************************************************************)
EXTENDS Integers, Sequences, FiniteSets, TLC

(***************************************************************************)
(* Bounds of the model                                                     *)
(***************************************************************************)
\* largest rowid stored in a generated table
MaxRowId == 3
\* largest number of cells on a generated leaf page
MaxCells == 2
\* page size written in the header of the generated files
PageSize == 288

(***************************************************************************)
(* Program constants                                                       *)
(***************************************************************************)
DATABASE_HEADER_SIZE == 100

(***************************************************************************)
(* Errors.  A thrown exception is modelled as a result record whose err    *)
(* field is not NoErr; callers propagate it unchanged.                     *)
(***************************************************************************)
NoErr == "none"
ErrRange == "RangeError: out of range"
ErrPageType == "invalid page type"
ErrUnknownPage == "Unknown page type"
ErrSerial == "Unknown serial type"
ErrNotFound == "Table not found"
ErrOpen == "ENOENT"
ErrType == "TypeError"

(***************************************************************************)
(* JavaScript values held by a record: null, number, BigInt, string        *)
(* (sequence of character codes), Buffer (sequence of bytes), undefined.   *)
(***************************************************************************)
Null == [t |-> "null", n |-> 0, b |-> <<>>]
Undefined == [t |-> "undefined", n |-> 0, b |-> <<>>]
Num(n) == [t |-> "number", n |-> n, b |-> <<>>]
BigInt(n) == [t |-> "bigint", n |-> n, b |-> <<>>]
Text(b) == [t |-> "string", n |-> 0, b |-> b]
Blob(b) == [t |-> "buffer", n |-> 0, b |-> b]

\* Map: a function from keys to values; get of an absent key is undefined
EmptyMap == <<>>
MapSet(m, k, v) == [x \in (DOMAIN m) \cup {k} |-> IF x = k THEN v ELSE m[x]]
MapGet(m, k) == IF k \in DOMAIN m THEN m[k] ELSE Undefined

(***************************************************************************)
(* Exceptions and sequencing.  A result record with err # NoErr is a       *)
(* thrown exception; Try(r, K) continues with K(r) when r returned         *)
(* normally and rethrows otherwise; Let(v, K) names a value.  Both bind    *)
(* the value through a one-element set, so that it is computed once.       *)
(***************************************************************************)
Throw(e) == [err |-> e]
Try(r, K(_)) ==
  CHOOSE y \in {IF x.err # NoErr THEN Throw(x.err) ELSE K(x) : x \in {r}} : TRUE
Let(v, K(_)) == CHOOSE y \in {K(x) : x \in {v}} : TRUE

(***************************************************************************)
(* Buffer primitives (offsets are 0-based)                                 *)
(***************************************************************************)
Min(a, b) == IF a < b THEN a ELSE b
Max(a, b) == IF a > b THEN a ELSE b

\* buffer.subarray(start, end): clamps both ends to the buffer, never throws
Subarray(buffer, start, end) ==
  SubSeq(buffer, Min(Max(start, 0), Len(buffer)) + 1,
         Min(Max(end, Min(Max(start, 0), Len(buffer))), Len(buffer)))

\* whether `width` bytes at `offset` lie inside the buffer
InRange(buffer, offset, width) == offset >= 0 /\ offset + width <= Len(buffer)

RECURSIVE BigEndian(_, _, _)
\* unsigned big-endian value of `width` bytes at `offset`
BigEndian(buffer, offset, width) ==
  IF width = 0 THEN 0
  ELSE 256 * BigEndian(buffer, offset, width - 1) + buffer[offset + width]

\* buffer.readUIntBE(offset, width), readUInt16BE, readUInt32BE
ReadUIntBE(buffer, offset, width) ==
  IF InRange(buffer, offset, width)
  THEN [err |-> NoErr, value |-> BigEndian(buffer, offset, width)]
  ELSE Throw(ErrRange)

\* buffer.readInt8(offset): two's complement
ReadInt8(buffer, offset) ==
  IF InRange(buffer, offset, 1)
  THEN [err |-> NoErr,
        value |-> IF buffer[offset + 1] >= 128 THEN buffer[offset + 1] - 256
                  ELSE buffer[offset + 1]]
  ELSE Throw(ErrRange)

\* value.toString('utf8') on single-byte characters; a byte that is not
\* ASCII decodes to the replacement character U+FFFD
Utf8ToString(bytes) == [i \in 1..Len(bytes) |-> IF bytes[i] < 128 THEN bytes[i] ELSE 65533]

(***************************************************************************)
(* 64-bit quantities.  A varint holds up to 64 bits, more than one integer *)
(* of the checker; a wide value is three limbs of 22 bits, most            *)
(* significant first.                                                      *)
(***************************************************************************)
LimbBits == 22
Limb == 2 ^ LimbBits

\* the wide value of a small number
Wide(n) == <<0, n \div Limb, n % Limb>>

\* the number held by a wide value that fits one
ToNumber(w) == (w[1] * Limb + w[2]) * Limb + w[3]

\* w * m + d, for a multiplier m of at most 256
WideShiftAdd(w, m, d) ==
  <<(w[1] * m + (w[2] * m + (w[3] * m + d) \div Limb) \div Limb) % Limb,
    (w[2] * m + (w[3] * m + d) \div Limb) % Limb,
    (w[3] * m + d) % Limb>>

(***************************************************************************)
(* VarInt decoder (./varint): up to 9 bytes, high bit = continuation for   *)
(* the first 8, the 9th contributes 8 bits; fails on buffer overrun.       *)
(***************************************************************************)
\* mutant: the ninth byte is read like the first eight
NinthByte_SevenBits(acc, byte) == WideShiftAdd(acc, 128, byte % 128)

\* the ninth byte contributes all of its 8 bits
NinthByte(acc, byte) == WideShiftAdd(acc, 256, byte)

RECURSIVE VarIntLoop(_, _, _, _)
VarIntLoop(buffer, offset, i, acc) ==
  IF ~InRange(buffer, offset + i, 1) THEN Throw(ErrRange)
  ELSE IF i = 8
  THEN [err |-> NoErr, wide |-> NinthByte(acc, buffer[offset + i + 1]), bytesRead |-> 9]
  ELSE IF buffer[offset + i + 1] >= 128
  THEN VarIntLoop(buffer, offset, i + 1, WideShiftAdd(acc, 128, buffer[offset + i + 1] % 128))
  ELSE [err |-> NoErr, wide |-> WideShiftAdd(acc, 128, buffer[offset + i + 1]),
        bytesRead |-> i + 1]

\* decode(buffer, offset) -> (value, bytesConsumed), the value as a wide value
readVarInt64(buffer, offset) == VarIntLoop(buffer, offset, 0, Wide(0))

\* readVarInt as the program uses it: the value as a number
readVarInt(buffer, offset) ==
  Try(readVarInt64(buffer, offset),
      LAMBDA r : [err |-> NoErr, value |-> ToNumber(r.wide), bytesRead |-> r.bytesRead])

(***************************************************************************)
(* getPageHeaderSize                                                       *)
(***************************************************************************)
getPageHeaderSize(pageType) ==
  IF pageType = 13 \/ pageType = 10 THEN [err |-> NoErr, value |-> 8]
  ELSE IF pageType = 2 \/ pageType = 5 THEN [err |-> NoErr, value |-> 12]
  ELSE Throw(ErrPageType)

(***************************************************************************)
(* readValue                                                               *)
(***************************************************************************)
ValueResult(value, newCursor) == [err |-> NoErr, value |-> value, newCursor |-> newCursor]

\* the fixed-width integer reads of readValue
ReadInteger(buffer, cursor, width, signed8) ==
  Try(IF signed8 THEN ReadInt8(buffer, cursor) ELSE ReadUIntBE(buffer, cursor, width),
      LAMBDA r : ValueResult(IF width = 8 THEN BigInt(r.value) ELSE Num(r.value),
                             cursor + width))

\* the blob and text branch of readValue (serialType > 12)
ReadBytes(buffer, cursor, serialType, dataTypeSize) ==
  IF serialType % 2 = 0
  THEN ValueResult(Blob(Subarray(buffer, cursor, cursor + dataTypeSize)),
                   cursor + dataTypeSize)
  ELSE ValueResult(Text(Utf8ToString(Subarray(buffer, cursor, cursor + dataTypeSize))),
                   cursor + dataTypeSize)

\* mutant: a serial type without a decoding rule reads as null
readValue_UnknownIsNull(buffer, cursor, serialType) ==
  IF serialType \in {0, 8, 9, 12, 13} \/ serialType \in {10, 11} \/ serialType < 0
  THEN ValueResult(Null, cursor)
  ELSE IF serialType > 12
  THEN ReadBytes(buffer, cursor, serialType,
                 (serialType - (IF serialType % 2 = 0 THEN 12 ELSE 13)) \div 2)
  ELSE ReadInteger(buffer, cursor, IF serialType = 5 THEN 6 ELSE IF serialType > 5 THEN 8
                                   ELSE serialType, serialType = 1)

readValue(buffer, cursor, serialType) ==
  IF serialType \in {0, 8, 9, 12, 13} THEN ValueResult(Null, cursor)
  ELSE IF serialType > 12
  THEN ReadBytes(buffer, cursor, serialType,
                 (serialType - (IF serialType % 2 = 0 THEN 12 ELSE 13)) \div 2)
  ELSE IF serialType = 1 THEN ReadInteger(buffer, cursor, 1, TRUE)
  ELSE IF serialType = 2 THEN ReadInteger(buffer, cursor, 2, FALSE)
  ELSE IF serialType = 3 THEN ReadInteger(buffer, cursor, 3, FALSE)
  ELSE IF serialType = 4 THEN ReadInteger(buffer, cursor, 4, FALSE)
  ELSE IF serialType = 5 THEN ReadInteger(buffer, cursor, 6, FALSE)
  ELSE IF serialType \in {6, 7} THEN ReadInteger(buffer, cursor, 8, FALSE)
  ELSE Throw(ErrSerial)

(***************************************************************************)
(* parseRecord                                                             *)
(***************************************************************************)
RECURSIVE ReadSerialTypes(_, _, _, _, _)
\* first loop of parseRecord: one serial-type varint per column name
ReadSerialTypes(buffer, columns, i, cursor, serialType) ==
  IF i > Len(columns) THEN [err |-> NoErr, cursor |-> cursor, serialType |-> serialType]
  ELSE Try(readVarInt(buffer, cursor),
           LAMBDA r : ReadSerialTypes(buffer, columns, i + 1, cursor + r.bytesRead,
                                      MapSet(serialType, columns[i], r.value)))

RECURSIVE ReadColumnValues(_, _, _, _, _, _)
\* second loop of parseRecord: one value per column name
ReadColumnValues(buffer, columns, i, cursor, serialType, record) ==
  IF i > Len(columns) THEN [err |-> NoErr, record |-> record]
  ELSE Try(readValue(buffer, cursor, serialType[columns[i]]),
           LAMBDA r : ReadColumnValues(buffer, columns, i + 1, r.newCursor, serialType,
                                       MapSet(record, columns[i], r.value)))

parseRecord(buffer, columns) ==
  Try(readVarInt(buffer, 0), LAMBDA h :
  Try(ReadSerialTypes(buffer, columns, 1, h.bytesRead, EmptyMap), LAMBDA s :
  ReadColumnValues(buffer, columns, 1, s.cursor, s.serialType, EmptyMap)))

(***************************************************************************)
(* readCell                                                                *)
(***************************************************************************)
\* the rowid varint, read only on table pages
ReadRowId(pageType, buffer, cursor) ==
  IF pageType = 13 \/ pageType = 5
  THEN Try(readVarInt(buffer, cursor),
           LAMBDA k : [err |-> NoErr, rowId |-> Num(k.value), bytesRead |-> k.bytesRead])
  ELSE [err |-> NoErr, rowId |-> Undefined, bytesRead |-> 0]

readCell(pageType, buffer, cellPointer) ==
  Try(readVarInt(buffer, cellPointer), LAMBDA s :
  Try(ReadRowId(pageType, buffer, cellPointer + s.bytesRead), LAMBDA k :
  [err |-> NoErr,
   record |-> Subarray(buffer, cellPointer + s.bytesRead + k.bytesRead,
                       cellPointer + s.bytesRead + k.bytesRead + s.value),
   rowId |-> k.rowId]))

(***************************************************************************)
(* Rows.  cols is the Map the program builds; cell is a history field that *)
(* remembers the rowId of the cell the row was decoded from.               *)
(***************************************************************************)
Row(cols, rowId) == [cols |-> cols, cell |-> rowId]

\* absent identityColumn (undefined)
NoColumn == ""

(***************************************************************************)
(* parseTableLeafPage                                                      *)
(***************************************************************************)
\* mutant: the rowid is not substituted
AliasRowId_Skipped(record, identityColumn, rowId) == record

\* if (identityColumn) row.set(identityColumn, rowId)
AliasRowId(record, identityColumn, rowId) ==
  IF identityColumn # NoColumn THEN MapSet(record, identityColumn, rowId) ELSE record

RECURSIVE LeafLoop(_, _, _, _, _, _, _, _)
\* the for loop of parseTableLeafPage, from iteration i with `rows` so far
LeafLoop(pageType, numberOfCells, buffer, columns, identityColumn, i, cursor, rows) ==
  IF ~(i < numberOfCells) THEN [err |-> NoErr, rows |-> rows]
  ELSE
    Try(ReadUIntBE(buffer, cursor, 2), LAMBDA cellPointer :
    Try(readCell(pageType, buffer, cellPointer.value), LAMBDA c :
    Try(parseRecord(c.record, columns), LAMBDA r :
    LeafLoop(pageType, numberOfCells, buffer, columns, identityColumn, i + 1, cursor + 2,
             Append(rows, Row(AliasRowId(r.record, identityColumn, c.rowId), c.rowId))))))

\* mutant: the loop starts at the second cell
parseTableLeafPage_SkipFirst(pageType, numberOfCells, buffer, columns, identityColumn) ==
  Try(getPageHeaderSize(pageType), LAMBDA h :
  LeafLoop(pageType, numberOfCells, buffer, columns, identityColumn, 1, h.value + 2, <<>>))

parseTableLeafPage(pageType, numberOfCells, buffer, columns, identityColumn) ==
  Try(getPageHeaderSize(pageType), LAMBDA h :
  LeafLoop(pageType, numberOfCells, buffer, columns, identityColumn, 0, h.value, <<>>))

(***************************************************************************)
(* parseTableInteriorPage                                                  *)
(***************************************************************************)
RECURSIVE InteriorLoop(_, _, _, _, _)
InteriorLoop(numberOfCells, buffer, i, cursor, childPointers) ==
  IF ~(i < numberOfCells) THEN [err |-> NoErr, childPointers |-> childPointers]
  ELSE
    Try(ReadUIntBE(buffer, cursor, 2), LAMBDA cellPointer :
    Try(ReadUIntBE(buffer, cellPointer.value, 4), LAMBDA childPointer :
    InteriorLoop(numberOfCells, buffer, i + 1, cursor + 2,
                 Append(childPointers, childPointer.value))))

\* mutant: the child pointers are collected in reverse order
parseTableInteriorPage_Reversed(pageType, numberOfCells, buffer) ==
  Try(getPageHeaderSize(pageType), LAMBDA h :
  Try(InteriorLoop(numberOfCells, buffer, 0, h.value, <<>>), LAMBDA r :
  [err |-> NoErr,
   childPointers |-> [i \in 1..Len(r.childPointers) |->
                        r.childPointers[Len(r.childPointers) + 1 - i]]]))

parseTableInteriorPage(pageType, numberOfCells, buffer) ==
  Try(getPageHeaderSize(pageType), LAMBDA h :
  InteriorLoop(numberOfCells, buffer, 0, h.value, <<>>))

(***************************************************************************)
(* fileHandle.read({length, position, buffer: Buffer.alloc(length)}): a    *)
(* positioned read; bytes past the end of the file stay zero.              *)
(***************************************************************************)
FileRead(fileContent, length, position) ==
  IF position < 0 THEN Throw(ErrRange)
  ELSE [err |-> NoErr,
        buffer |-> [i \in 1..length |->
                      IF position + i <= Len(fileContent) THEN fileContent[position + i]
                      ELSE 0]]

(***************************************************************************)
(* readTableRows.  The result carries, besides the rows, the positions of  *)
(* the reads issued on the file handle, in order (reads).                  *)
(***************************************************************************)
ScanResult(err, rows, reads) == [err |-> err, rows |-> rows, reads |-> reads]

\* as Try, for a step of the scan: a thrown exception ends the scan
TryScan(r, reads, K(_)) ==
  CHOOSE y \in {IF x.err # NoErr THEN ScanResult(x.err, <<>>, reads) ELSE K(x) : x \in {r}} : TRUE

\* the page header fields readTableRows reads from the buffer
ReadPageHeader(buffer) ==
  Try(ReadInt8(buffer, 0), LAMBDA pageType :
  Try(ReadUIntBE(buffer, 1, 2), LAMBDA startOfFreeBlock :
  Try(ReadUIntBE(buffer, 3, 2), LAMBDA numberOfCells :
  Try(ReadUIntBE(buffer, 5, 2), LAMBDA startOfCellContentArea :
  Try(IF pageType.value = 2 \/ pageType.value = 5 THEN ReadUIntBE(buffer, 8, 4)
      ELSE [err |-> NoErr, value |-> 0], LAMBDA rightMostPointer :
  [err |-> NoErr, pageType |-> pageType.value, numberOfCells |-> numberOfCells.value,
   rightMostPointer |-> rightMostPointer.value])))))

RECURSIVE readTableRows(_, _, _, _, _)
RECURSIVE ChildLoop(_, _, _, _, _, _, _, _)

\* mutant: a child that fails ends the loop with the rows collected so far
ChildLoop_Partial(fileContent, childPointers, pageSize_, columns, identityColumn, i, rows, reads) ==
  IF i > Len(childPointers) THEN ScanResult(NoErr, rows, reads)
  ELSE Let(readTableRows(fileContent, childPointers[i], pageSize_, columns, identityColumn),
           LAMBDA sub :
             IF sub.err # NoErr THEN ScanResult(NoErr, rows, reads \o sub.reads)
             ELSE ChildLoop(fileContent, childPointers, pageSize_, columns, identityColumn,
                            i + 1, rows \o sub.rows, reads \o sub.reads))

\* the for-of loop of readTableRows over childPointers, from index i
ChildLoop(fileContent, childPointers, pageSize_, columns, identityColumn, i, rows, reads) ==
  IF i > Len(childPointers) THEN ScanResult(NoErr, rows, reads)
  ELSE Let(readTableRows(fileContent, childPointers[i], pageSize_, columns, identityColumn),
           LAMBDA sub :
             IF sub.err # NoErr THEN ScanResult(sub.err, <<>>, reads \o sub.reads)
             ELSE ChildLoop(fileContent, childPointers, pageSize_, columns, identityColumn,
                            i + 1, rows \o sub.rows, reads \o sub.reads))

\* readTableRows once the page has been read into `buffer`
ScanPage(fileContent, offset, buffer, pageSize_, columns, identityColumn) ==
  TryScan(ReadPageHeader(buffer), <<offset>>, LAMBDA h :
    IF h.pageType = 13
    THEN TryScan(parseTableLeafPage(h.pageType, h.numberOfCells, buffer, columns,
                                    identityColumn),
                 <<offset>>, LAMBDA leaf : ScanResult(NoErr, leaf.rows, <<offset>>))
    ELSE IF h.pageType = 5
    THEN TryScan(parseTableInteriorPage(h.pageType, h.numberOfCells, buffer),
                 <<offset>>,
                 LAMBDA cp : ChildLoop(fileContent, cp.childPointers, pageSize_, columns,
                                       identityColumn, 1, <<>>, <<offset>>))
    ELSE ScanResult(ErrUnknownPage, <<>>, <<offset>>))

readTableRows(fileContent, page, pageSize_, columns, identityColumn) ==
  TryScan(FileRead(fileContent, pageSize_, (page - 1) * pageSize_), <<>>, LAMBDA rd :
  ScanPage(fileContent, (page - 1) * pageSize_, rd.buffer, pageSize_, columns,
           identityColumn))

(***************************************************************************)
(* Strings are sequences of character codes.  The texts the model uses:    *)
(***************************************************************************)
\* "table"
StrTable == <<116, 97, 98, 108, 101>>
\* "apples"
StrApples == <<97, 112, 112, 108, 101, 115>>
\* "sqlite_sequence"
StrSqliteSequence == <<115, 113, 108, 105, 116, 101, 95, 115, 101, 113, 117, 101, 110, 99, 101>>
\* "fuji"
StrFuji == <<102, 117, 106, 105>>
\* "honeycrisp"
StrHoneycrisp == <<104, 111, 110, 101, 121, 99, 114, 105, 115, 112>>
\* "2"
StrTwo == <<50>>
\* "CREATE TABLE apples(id integer primary key, name text)"
SqlApplesIpk == <<67, 82, 69, 65, 84, 69, 32, 84, 65, 66, 76, 69, 32, 97, 112, 112, 108, 101, 115, 40, 105, 100, 32, 105, 110, 116, 101, 103, 101, 114, 32, 112, 114, 105, 109, 97, 114, 121, 32, 107, 101, 121, 44, 32, 110, 97, 109, 101, 32, 116, 101, 120, 116, 41>>
\* "CREATE TABLE apples(id integer, name text)"
SqlApplesPlain == <<67, 82, 69, 65, 84, 69, 32, 84, 65, 66, 76, 69, 32, 97, 112, 112, 108, 101, 115, 40, 105, 100, 32, 105, 110, 116, 101, 103, 101, 114, 44, 32, 110, 97, 109, 101, 32, 116, 101, 120, 116, 41>>
\* "CREATE TABLE sqlite_sequence(name,seq)"
SqlSequence == <<67, 82, 69, 65, 84, 69, 32, 84, 65, 66, 76, 69, 32, 115, 113, 108, 105, 116, 101, 95, 115, 101, 113, 117, 101, 110, 99, 101, 40, 110, 97, 109, 101, 44, 115, 101, 113, 41>>
\* "database page size: "
StrPageSizeLabel == <<100, 97, 116, 97, 98, 97, 115, 101, 32, 112, 97, 103, 101, 32, 115, 105, 122, 101, 58, 32>>
\* "number of tables: "
StrTablesLabel == <<110, 117, 109, 98, 101, 114, 32, 111, 102, 32, 116, 97, 98, 108, 101, 115, 58, 32>>
\* "null"
StrNull == <<110, 117, 108, 108>>
\* "undefined"
StrUndefined == <<117, 110, 100, 101, 102, 105, 110, 101, 100>>
\* "pears"
StrPears == <<112, 101, 97, 114, 115>>
\* "index"
StrIndex ==
  <<105, 110, 100, 101, 120>>
\* "idx_apples_name"
StrIdxApplesName ==
  <<105, 100, 120, 95, 97, 112, 112, 108, 101, 115, 95, 110, 97, 109, 101>>
\* "CREATE INDEX idx_apples_name ON apples(name)"
SqlIndexApplesName ==
  <<67, 82, 69, 65, 84, 69, 32, 73, 78, 68, 69, 88, 32, 105, 100, 120, 95, 97, 112, 112,
  108, 101, 115, 95, 110, 97, 109, 101, 32, 79, 78, 32, 97, 112, 112, 108, 101, 115, 40,
  110, 97, 109, 101, 41>>

(***************************************************************************)
(* JavaScript conversions used by console.log, Array.prototype.join and    *)
(* Array.prototype.sort                                                    *)
(***************************************************************************)
RECURSIVE Digits(_)
\* decimal digits of a natural number
Digits(n) == IF n < 10 THEN <<48 + n>> ELSE Digits(n \div 10) \o <<48 + (n % 10)>>

\* String(n) for an integer
NumberToString(n) == IF n < 0 THEN <<45>> \o Digits(0 - n) ELSE Digits(n)

\* String(v)
ToString_(v) ==
  CASE v.t = "null" -> StrNull
    [] v.t = "undefined" -> StrUndefined
    [] v.t = "number" -> NumberToString(v.n)
    [] v.t = "bigint" -> NumberToString(v.n)
    [] v.t = "string" -> v.b
    [] v.t = "buffer" -> Utf8ToString(v.b)

\* the text Array.prototype.join uses for one element
JoinElement(v) == IF v.t \in {"null", "undefined"} THEN <<>> ELSE ToString_(v)

RECURSIVE Join(_, _)
\* Array.prototype.join on an array of values
Join(values, separator) ==
  IF Len(values) = 0 THEN <<>>
  ELSE IF Len(values) = 1 THEN JoinElement(values[1])
  ELSE JoinElement(values[1]) \o separator \o Join(Tail(values), separator)

RECURSIVE CodeUnitLess(_, _)
\* a < b in code-unit order, the default order of Array.prototype.sort
CodeUnitLess(a, b) ==
  IF Len(b) = 0 THEN FALSE
  ELSE IF Len(a) = 0 THEN TRUE
  ELSE IF a[1] # b[1] THEN a[1] < b[1]
  ELSE CodeUnitLess(Tail(a), Tail(b))

\* the default sort comparison: undefined goes last, the rest by String(v)
SortBefore(x, y) ==
  IF x.t = "undefined" THEN FALSE
  ELSE IF y.t = "undefined" THEN TRUE
  ELSE CodeUnitLess(ToString_(x), ToString_(y))

RECURSIVE SortInsert(_, _)
SortInsert(sorted, x) ==
  IF Len(sorted) = 0 THEN <<x>>
  ELSE IF SortBefore(x, sorted[1]) THEN <<x>> \o sorted
  ELSE <<sorted[1]>> \o SortInsert(Tail(sorted), x)

RECURSIVE Sort(_)
\* Array.prototype.sort() without a comparator (stable)
Sort(values) ==
  IF Len(values) = 0 THEN <<>>
  ELSE SortInsert(Sort(SubSeq(values, 1, Len(values) - 1)), values[Len(values)])

\* a === b; two Buffers are equal only when they are the same object, and
\* a decoded Buffer is never the same object as a query literal
StrictEquals(a, b) ==
  /\ a.t = b.t
  /\ CASE a.t \in {"number", "bigint"} -> a.n = b.n
       [] a.t = "string" -> a.b = b.b
       [] a.t = "buffer" -> FALSE
       [] OTHER -> TRUE

\* a == b for the values compared here: as ===, and a number equals the
\* string that spells it, and null equals undefined
LooseEquals(a, b) ==
  \/ StrictEquals(a, b)
  \/ a.t = "number" /\ b.t = "string" /\ NumberToString(a.n) = b.b
  \/ a.t = "string" /\ b.t = "number" /\ NumberToString(b.n) = a.b
  \/ a.t \in {"null", "undefined"} /\ b.t \in {"null", "undefined"}

(***************************************************************************)
(* applyFilter                                                             *)
(***************************************************************************)
\* mutant: the comparison coerces (== instead of ===)
applyFilter_Loose(rows, whereClause) ==
  IF Len(whereClause) = 0 THEN rows
  ELSE SelectSeq(rows, LAMBDA row :
                   LooseEquals(MapGet(row.cols, whereClause[1].column), whereClause[1].value))

\* mutant: the comparison is inverted (!== instead of ===)
applyFilter_Inverted(rows, whereClause) ==
  IF Len(whereClause) = 0 THEN rows
  ELSE SelectSeq(rows, LAMBDA row :
                   ~StrictEquals(MapGet(row.cols, whereClause[1].column), whereClause[1].value))

applyFilter(rows, whereClause) ==
  IF Len(whereClause) = 0 THEN rows
  ELSE LET filterColumn == whereClause[1].column
           filterValue == whereClause[1].value
       IN  SelectSeq(rows, LAMBDA row : StrictEquals(MapGet(row.cols, filterColumn), filterValue))

(***************************************************************************)
(* projectTableRows                                                        *)
(***************************************************************************)
\* mutant: the columns are emitted in the order of the table, not of the query
projectTableRows_TableOrder(rows, queryColumns) ==
  [i \in 1..Len(rows) |->
     LET tableOrder == <<"id", "name">>
         kept == SelectSeq(tableOrder, LAMBDA c : \E j \in 1..Len(queryColumns) : queryColumns[j] = c)
     IN  Join([j \in 1..Len(kept) |-> MapGet(rows[i].cols, kept[j])], <<124>>)]

projectTableRows(rows, queryColumns) ==
  [i \in 1..Len(rows) |->
     Join([j \in 1..Len(queryColumns) |-> MapGet(rows[i].cols, queryColumns[j])], <<124>>)]

(***************************************************************************)
(* parseTableSchema, readTableSchemas                                      *)
(***************************************************************************)
schemaColumns == <<"schemaType", "schemaName", "tableName", "rootPage", "schemaBody">>

parseTableSchema(buffer) == parseRecord(buffer, schemaColumns)

RECURSIVE SchemaLoop_ShiftedCells(_, _, _, _, _, _)
\* mutant: the cells are looked up 100 bytes after their pointers
SchemaLoop_ShiftedCells(pageType, numberOfCells, buffer, i, cursor, schemas) ==
  IF ~(i < numberOfCells) THEN [err |-> NoErr, tables |-> schemas]
  ELSE
    Try(ReadUIntBE(buffer, cursor, 2), LAMBDA cellPointer :
    Try(readCell(pageType, buffer, cellPointer.value + DATABASE_HEADER_SIZE), LAMBDA c :
    Try(parseTableSchema(c.record), LAMBDA t :
    SchemaLoop_ShiftedCells(pageType, numberOfCells, buffer, i + 1, cursor + 2,
                            Append(schemas, t.record)))))

RECURSIVE SchemaLoop(_, _, _, _, _, _)
SchemaLoop(pageType, numberOfCells, buffer, i, cursor, schemas) ==
  IF ~(i < numberOfCells) THEN [err |-> NoErr, tables |-> schemas]
  ELSE
    Try(ReadUIntBE(buffer, cursor, 2), LAMBDA cellPointer :
    Try(readCell(pageType, buffer, cellPointer.value), LAMBDA c :
    Try(parseTableSchema(c.record), LAMBDA t :
    SchemaLoop(pageType, numberOfCells, buffer, i + 1, cursor + 2,
               Append(schemas, t.record)))))

readTableSchemas(fileContent, pageSize_) ==
  Try(FileRead(fileContent, pageSize_, 0), LAMBDA rd :
  Try(ReadInt8(rd.buffer, DATABASE_HEADER_SIZE), LAMBDA pageType :
  Try(ReadUIntBE(rd.buffer, 3 + DATABASE_HEADER_SIZE, 2), LAMBDA numberOfCells :
  Try(getPageHeaderSize(pageType.value), LAMBDA pageHeaderSize :
  SchemaLoop(pageType.value, numberOfCells.value, rd.buffer, 0,
             pageHeaderSize.value + DATABASE_HEADER_SIZE, <<>>)))))

(***************************************************************************)
(* readDatabaseHeader                                                      *)
(***************************************************************************)
readDatabaseHeader(fileContent) ==
  Try(FileRead(fileContent, DATABASE_HEADER_SIZE, 0), LAMBDA rd :
  [err |-> NoErr,
   pageSize |-> BigEndian(rd.buffer, 16, 2),
   numberOfPages |-> BigEndian(rd.buffer, 28, 4)])

(***************************************************************************)
(* filterAndFormatListOfTables                                             *)
(***************************************************************************)
filterAndFormatListOfTables(tables) ==
  LET names == [i \in 1..Len(tables) |-> MapGet(tables[i], "tableName")]
      kept == SelectSeq(names, LAMBDA n : ~StrictEquals(n, Text(StrSqliteSequence)))
  IN  Join(Sort(kept), <<32>>)

(***************************************************************************)
(* ./sqlparser, the external collaborators.  parseColumns maps a table's   *)
(* column-definition text to its column names and the name of its INTEGER  *)
(* PRIMARY KEY column; parseSelectCommand maps the SELECT text to the      *)
(* query descriptor, which the model takes as the command's content.       *)
(***************************************************************************)
parseColumns(schemaBody) ==
  IF schemaBody = Text(SqlApplesIpk) THEN [columns |-> <<"id", "name">>, identityColumn |-> "id"]
  ELSE IF schemaBody = Text(SqlApplesPlain) THEN [columns |-> <<"id", "name">>, identityColumn |-> NoColumn]
  ELSE IF schemaBody = Text(SqlSequence) THEN [columns |-> <<"name", "seq">>, identityColumn |-> NoColumn]
  ELSE [columns |-> <<>>, identityColumn |-> NoColumn]

parseSelectCommand(command) ==
  [queryColumns |-> command.queryColumns,
   queryTableName |-> command.queryTableName,
   whereClause |-> command.whereClause]

(***************************************************************************)
(* The database files the model runs on.  A file is described by its       *)
(* content (db) and written out byte for byte in the page format: 100-byte *)
(* header, 1-based pages, page header, cell pointer array, cells stored    *)
(* from the end of the page downwards.                                     *)
(***************************************************************************)
U16(n) == <<(n \div 256) % 256, n % 256>>
U32(n) == <<(n \div 16777216) % 256, (n \div 65536) % 256, (n \div 256) % 256, n % 256>>

RECURSIVE VarIntHigh(_)
VarIntHigh(n) == IF n < 128 THEN <<128 + n>> ELSE VarIntHigh(n \div 128) \o <<128 + (n % 128)>>
\* canonical varint of a value below 2^31
WriteVarInt(n) == IF n < 128 THEN <<n>> ELSE VarIntHigh(n \div 128) \o <<n % 128>>

\* wide values: w \div m and w % m for a divisor m of Limb (128 or 256)
WideDiv(w, m) ==
  <<w[1] \div m,
    w[2] \div m + (w[1] % m) * (Limb \div m),
    w[3] \div m + (w[2] % m) * (Limb \div m)>>
WideMod(w, m) == w[3] % m

\* whether a wide value is below 2^7, and below 2^56
OneByte(w) == w[1] = 0 /\ w[2] = 0 /\ w[3] < 128
EightBytes(w) == w[1] < 4096

RECURSIVE VarIntHigh64(_)
VarIntHigh64(w) ==
  IF OneByte(w) THEN <<128 + w[3]>>
  ELSE VarIntHigh64(WideDiv(w, 128)) \o <<128 + WideMod(w, 128)>>

RECURSIVE VarIntGroups(_, _)
\* k continuation bytes holding the low 7 * k bits of w
VarIntGroups(w, k) ==
  IF k = 0 THEN <<>>
  ELSE VarIntGroups(WideDiv(w, 128), k - 1) \o <<128 + WideMod(w, 128)>>

\* the canonical (shortest) varint of a 64-bit value: below 2^56 the 7-bit
\* groups, the last one without the continuation bit; from 2^56 on, eight
\* continuation bytes for the high 56 bits and a ninth byte of 8 bits
WriteVarInt64(w) ==
  IF OneByte(w) THEN <<w[3]>>
  ELSE IF EightBytes(w) THEN VarIntHigh64(WideDiv(w, 128)) \o <<WideMod(w, 128)>>
  ELSE VarIntGroups(WideDiv(w, 256), 8) \o <<WideMod(w, 256)>>

Zeros(n) == [i \in 1..n |-> 0]

RECURSIVE Flatten(_)
Flatten(seqs) == IF Len(seqs) = 0 THEN <<>> ELSE seqs[1] \o Flatten(Tail(seqs))

Reverse(s) == [i \in 1..Len(s) |-> s[Len(s) + 1 - i]]

\* stored column values: serial type and body bytes
StoredNull == [st |-> 0, bytes |-> <<>>]
StoredInt8(v) == [st |-> 1, bytes |-> <<v % 256>>]
StoredText(b) == [st |-> 13 + 2 * Len(b), bytes |-> b]

\* a record: header length, one serial type per column, the bodies
WriteRecord(stored) ==
  LET types == Flatten([i \in 1..Len(stored) |-> WriteVarInt(stored[i].st)])
  IN  WriteVarInt(1 + Len(types)) \o types \o Flatten([i \in 1..Len(stored) |-> stored[i].bytes])

WriteLeafCell(rowId, record) == WriteVarInt(Len(record)) \o WriteVarInt(rowId) \o record
WriteInteriorCell(leftChild, key) == U32(leftChild) \o WriteVarInt(key)
\* a cell of an index leaf page: no rowid
WriteIndexCell(record) == WriteVarInt(Len(record)) \o record

RECURSIVE TotalLen(_, _)
\* total length of the first k cells
TotalLen(cells, k) == IF k = 0 THEN 0 ELSE TotalLen(cells, k - 1) + Len(cells[k])

\* a page of `size` bytes: `prefix` (the file header on page 1), the page
\* header, the pointer array, free space, the cells
WritePage(prefix, pageType, rightMost, cells, size) ==
  LET n == Len(cells)
      pointers == [i \in 1..n |-> size - TotalLen(cells, i)]
      contentStart == size - TotalLen(cells, n)
      header == <<pageType, 0, 0>> \o U16(n) \o U16(contentStart) \o <<0>>
                \o (IF pageType = 5 THEN U32(rightMost) ELSE <<>>)
      top == prefix \o header \o Flatten([i \in 1..n |-> U16(pointers[i])])
  IN  top \o Zeros(contentStart - Len(top)) \o Flatten(Reverse(cells))

\* page descriptions
LeafPage(rowIds) == [kind |-> "leaf", rowIds |-> rowIds, children |-> <<>>, rightMost |-> 0]
InteriorPage(children, rightMost) ==
  [kind |-> "interior", rowIds |-> <<>>, children |-> children, rightMost |-> rightMost]
\* the leaf page of the index on name: one entry per row, ordered by name
IndexPage(rowIds) ==
  [kind |-> "index",
   rowIds |-> SelectSeq(rowIds, LAMBDA r : r % 2 = 1) \o SelectSeq(rowIds, LAMBDA r : r % 2 = 0),
   children |-> <<>>, rightMost |-> 0]

\* all children of an interior page, left to right: the left child of every
\* cell, then the right-most child of the page header
Children(pages, p) ==
  IF pages[p].kind = "interior" THEN Append(pages[p].children, pages[p].rightMost) ELSE <<>>

RECURSIVE StoredRowIds(_, _)
\* the rowids stored in the subtree of page p, in key order of the tree
StoredRowIds(pages, p) ==
  IF pages[p].kind = "leaf" THEN pages[p].rowIds
  ELSE Flatten([i \in 1..Len(Children(pages, p)) |-> StoredRowIds(pages, Children(pages, p)[i])])

RECURSIVE SeqMax(_)
SeqMax(s) == IF Len(s) = 0 THEN 0 ELSE Max(s[1], SeqMax(Tail(s)))

\* the name stored with a rowid, and the id column as stored in the record
NameOf(rowId) == IF rowId % 2 = 1 THEN StrFuji ELSE StrHoneycrisp
StoredId(variant) == IF variant = "ipk-null" THEN StoredNull ELSE StoredInt8(2)

WriteTablePage(pages, p, variant, size) ==
  IF pages[p].kind = "leaf"
  THEN WritePage(<<>>, 13, 0,
                 [i \in 1..Len(pages[p].rowIds) |->
                    WriteLeafCell(pages[p].rowIds[i],
                                  WriteRecord(<<StoredId(variant),
                                                StoredText(NameOf(pages[p].rowIds[i]))>>))],
                 size)
  ELSE IF pages[p].kind = "index"
  THEN WritePage(<<>>, 10, 0,
                 [i \in 1..Len(pages[p].rowIds) |->
                    WriteIndexCell(WriteRecord(<<StoredText(NameOf(pages[p].rowIds[i])),
                                                 StoredInt8(pages[p].rowIds[i])>>))],
                 size)
  ELSE WritePage(<<>>, 5, pages[p].rightMost,
                 [i \in 1..Len(pages[p].children) |->
                    WriteInteriorCell(pages[p].children[i],
                                      SeqMax(StoredRowIds(pages, pages[p].children[i])))],
                 size)

\* the record of a catalog entry
SchemaRecord(type, name, tableName, rootPage, sql) ==
  WriteRecord(<<StoredText(type), StoredText(name), StoredText(tableName),
                StoredInt8(rootPage), StoredText(sql)>>)

\* the catalog cell of a table
WriteSchemaCell(rowId, name, rootPage, sql) ==
  WriteLeafCell(rowId, SchemaRecord(StrTable, name, name, rootPage, sql))

\* the 100-byte file header: page size at 16, page count at 28
WriteFileHeader(size, numberOfPages) ==
  Zeros(16) \o U16(size) \o Zeros(10) \o U32(numberOfPages) \o Zeros(68)

\* the catalog entries of a file: apples rooted at page 2; the "plain"
\* variant also has sqlite_sequence, rooted at the last page; the "indexed"
\* variant also has an index on apples(name), rooted at the last page; in
\* the "catalog-0a" variant the catalog is laid out as an index leaf page
CatalogCells(pages, variant) ==
  LET last == 1 + Len(pages) IN
  IF variant = "plain"
  THEN <<WriteSchemaCell(1, StrSqliteSequence, last, SqlSequence),
         WriteSchemaCell(2, StrApples, 2, SqlApplesPlain)>>
  ELSE IF variant = "indexed"
  THEN <<WriteSchemaCell(1, StrApples, 2, SqlApplesIpk),
         WriteLeafCell(2, SchemaRecord(StrIndex, StrIdxApplesName, StrApples, last,
                                       SqlIndexApplesName))>>
  ELSE IF variant = "catalog-0a"
  THEN <<WriteIndexCell(SchemaRecord(StrTable, StrApples, StrApples, 2, SqlApplesIpk))>>
  ELSE <<WriteSchemaCell(1, StrApples, 2, SqlApplesIpk)>>

\* pages[p - 1] describes page p of the file (page 1 is the catalog)
PageAt(pages) == [p \in 2..(1 + Len(pages)) |-> pages[p - 1]]

WriteFile(pages, variant, size) ==
  LET n == 1 + Len(pages) IN
  WritePage(WriteFileHeader(size, n), IF variant = "catalog-0a" THEN 10 ELSE 13, 0,
            CatalogCells(pages, variant), size)
  \o Flatten([i \in 1..Len(pages) |-> WriteTablePage(PageAt(pages), i + 1, variant, size)])

(***************************************************************************)
(* Files that are not well formed.  A damage overwrites bytes of a written *)
(* file: the type byte of a page, the serial type of the first column in   *)
(* the last cell of a leaf page, or the left child of the first cell of an *)
(* interior page.                                                          *)
(***************************************************************************)
NoDamage == [kind |-> "none", page |-> 0, value |-> 0]
Damage(kind, page, value) == [kind |-> kind, page |-> page, value |-> value]

\* bytes with `new` written over them from 0-based offset `at`
Patch(bytes, at, new) ==
  [i \in 1..Len(bytes) |-> IF i > at /\ i <= at + Len(new) THEN new[i - at] ELSE bytes[i]]

\* where the page header of page p starts in the file
PageHeaderAt(p, size) == (p - 1) * size + (IF p = 1 THEN DATABASE_HEADER_SIZE ELSE 0)

\* the 0-based file offset a damage overwrites
DamageOffset(bytes, damage, size) ==
  IF damage.kind = "pagetype" THEN PageHeaderAt(damage.page, size)
  ELSE IF damage.kind = "serial"
  THEN (damage.page - 1) * size + BigEndian(bytes, PageHeaderAt(damage.page, size) + 5, 2) + 3
  ELSE (damage.page - 1) * size + BigEndian(bytes, PageHeaderAt(damage.page, size) + 12, 2)

Damaged(bytes, damage, size) ==
  IF damage.kind = "none" THEN bytes
  ELSE Patch(bytes, DamageOffset(bytes, damage, size),
             IF damage.kind = "child" THEN U32(damage.value) ELSE <<damage.value>>)

(***************************************************************************)
(* handleSelectCommand                                                     *)
(***************************************************************************)
\* mutant: a name that is not found falls back to the first catalog entry
FindTable_FirstEntry(tables, queryTableName) ==
  LET found == {i \in 1..Len(tables) :
                  StrictEquals(MapGet(tables[i], "tableName"), Text(queryTableName))}
  IN  IF found = {} THEN Min(1, Len(tables)) ELSE CHOOSE i \in found : \A j \in found : i <= j

\* tables.find((table) => table.get('tableName') === queryTableName):
\* the index of the first match, 0 when there is none
FindTable(tables, queryTableName) ==
  LET found == {i \in 1..Len(tables) :
                  StrictEquals(MapGet(tables[i], "tableName"), Text(queryTableName))}
  IN  IF found = {} THEN 0 ELSE CHOOSE i \in found : \A j \in found : i <= j

\* the projected rows and the text console.log receives for them
Projected(result) ==
  [result |-> result, printed |-> Join([i \in 1..Len(result) |-> Text(result[i])], <<10>>)]

\* mutant: the count is taken one short
SelectOutput_CountShort(queryColumns, filteredRows) ==
  IF Len(queryColumns) > 0 /\ queryColumns[1] = "count(*)"
  THEN [result |-> <<>>, printed |-> NumberToString(Len(filteredRows) - 1)]
  ELSE Projected(projectTableRows(filteredRows, queryColumns))

\* what the handler passes to console.log: the count, or the projected
\* rows joined by newlines
SelectOutput(queryColumns, filteredRows) ==
  IF Len(queryColumns) > 0 /\ queryColumns[1] = "count(*)"
  THEN [result |-> <<>>, printed |-> NumberToString(Len(filteredRows))]
  ELSE Projected(projectTableRows(filteredRows, queryColumns))

\* the handler's outcome: the exception it throws (err), the reads it
\* issued, its locals rows, filteredRows, result, and its console.log calls
SelectResult(err, scanReads, rows, filteredRows, result, logged) ==
  [err |-> err, reads |-> scanReads, rows |-> rows, filteredRows |-> filteredRows,
   result |-> result, logged |-> logged]

\* the handler from the scan on, for the catalog entry `table`
SelectFrom(q, table, fileContent, pageSize_) ==
  Let(parseColumns(MapGet(table, "schemaBody")), LAMBDA parsed :
  Let(readTableRows(fileContent, MapGet(table, "rootPage").n, pageSize_, parsed.columns,
                    parsed.identityColumn), LAMBDA scan :
    IF scan.err # NoErr THEN SelectResult(scan.err, scan.reads, <<>>, <<>>, <<>>, <<>>)
    ELSE Let(applyFilter(scan.rows, q.whereClause), LAMBDA filteredRows :
         Let(SelectOutput(q.queryColumns, filteredRows), LAMBDA out :
         SelectResult(NoErr, scan.reads, scan.rows, filteredRows, out.result,
                      <<out.printed>>)))))

handleSelectCommand(command_, fileContent, pageSize_, schemas) ==
  Let(parseSelectCommand(command_), LAMBDA q :
  Let(FindTable(schemas, q.queryTableName), LAMBDA t :
    IF t = 0 THEN SelectResult(ErrNotFound, <<>>, <<>>, <<>>, <<>>, <<>>)
    ELSE SelectFrom(q, schemas[t], fileContent, pageSize_)))

(***************************************************************************)
(* Inputs: the generated files and the commands                            *)
(***************************************************************************)
\* the rows of a generated table: rowids 1..n, stored in ascending key
\* order, or (an ill-formed tree) in descending order
StoredOrder(n, ascending) == [i \in 1..n |-> IF ascending THEN i ELSE n + 1 - i]

\* how many cells each of k leaves holds: at most MaxCells each, n in all
LeafSizes(k, n) ==
  {sizes \in [1..k -> 0..MaxCells] : TotalLen([i \in 1..k |-> Zeros(sizes[i])], k) = n}

\* the cells of leaf i when `order` is cut into leaves of the given sizes
LeafSlice(order, sizes, i) ==
  LET before == TotalLen([j \in 1..Len(sizes) |-> Zeros(sizes[j])], i - 1)
  IN  SubSeq(order, before + 1, before + sizes[i])

\* table trees rooted at page 2: a single leaf; an interior root with two
\* or three leaf children; a two-level tree
TablePages ==
  UNION {
    {<<LeafPage(LeafSlice(StoredOrder(n, asc), sizes, 1))>> : sizes \in LeafSizes(1, n)}
    \cup {<<InteriorPage(<<3>>, 4),
            LeafPage(LeafSlice(StoredOrder(n, asc), sizes, 1)),
            LeafPage(LeafSlice(StoredOrder(n, asc), sizes, 2))>> : sizes \in LeafSizes(2, n)}
    \cup {<<InteriorPage(<<3, 4>>, 5),
            LeafPage(LeafSlice(StoredOrder(n, asc), sizes, 1)),
            LeafPage(LeafSlice(StoredOrder(n, asc), sizes, 2)),
            LeafPage(LeafSlice(StoredOrder(n, asc), sizes, 3))>> : sizes \in LeafSizes(3, n)}
    \cup {<<InteriorPage(<<3>>, 4), InteriorPage(<<5>>, 6),
            LeafPage(LeafSlice(StoredOrder(n, asc), sizes, 3)),
            LeafPage(LeafSlice(StoredOrder(n, asc), sizes, 1)),
            LeafPage(LeafSlice(StoredOrder(n, asc), sizes, 2))>> :
            sizes \in {x \in LeafSizes(3, n) : n = MaxRowId}}
    : n \in 0..MaxRowId, asc \in BOOLEAN}

Variants == {"ipk-null", "ipk-literal", "plain"}

\* the content of a file: the pages of apples, then the root page of the
\* variant's second catalog entry, if it has one
Database(tp, v, damage) ==
  [pages |-> IF v = "plain" THEN Append(tp, LeafPage(<<>>))
             ELSE IF v = "indexed" THEN Append(tp, IndexPage(StoredRowIds(PageAt(tp), 2)))
             ELSE tp,
   variant |-> v, damage |-> damage]

\* the files with a damage: a leaf root whose last cell has serial type 11
\* or whose type byte is that of an index page; a three-leaf tree whose
\* second leaf is damaged in the same ways; a catalog page whose type byte
\* is 0x02 or 0.  And two more layouts of the catalog, on a leaf root: with
\* an index on apples, and laid out as an index leaf page (0x0a)
SpecialDatabases ==
  {Database(<<LeafPage(StoredOrder(MaxCells, TRUE))>>, v, d) :
     v \in Variants,
     d \in {Damage("serial", 2, 11), Damage("pagetype", 2, 10), Damage("pagetype", 1, 2),
            Damage("pagetype", 1, 0)}}
  \cup {Database(<<LeafPage(StoredOrder(n, TRUE))>>, v, NoDamage) :
          n \in 0..MaxCells, v \in {"indexed", "catalog-0a"}}
  \cup {Database(<<InteriorPage(<<3, 4>>, 5), LeafPage(<<1>>), LeafPage(<<2>>), LeafPage(<<3>>)>>,
                 v, d) :
          v \in Variants, d \in {Damage("serial", 4, 11), Damage("pagetype", 4, 10)}}

Databases ==
  {Database(tp, v, NoDamage) : tp \in TablePages, v \in Variants} \cup SpecialDatabases

Select(queryColumns, queryTableName, whereClause) ==
  [kind |-> "SELECT", queryColumns |-> queryColumns, queryTableName |-> queryTableName,
   whereClause |-> whereClause]
Other(kind) == [kind |-> kind, queryColumns |-> <<>>, queryTableName |-> <<>>, whereClause |-> <<>>]

WhereId(v) == <<[column |-> "id", value |-> v]>>
WhereName(v) == <<[column |-> "name", value |-> v]>>

Commands ==
  {Select(<<"count(*)">>, StrApples, w) : w \in {<<>>, WhereId(Num(2))}}
  \cup {Select(<<"name">>, StrApples, w) :
          w \in {<<>>, WhereId(Num(2)), WhereId(Text(StrTwo)), WhereName(Text(StrFuji))}}
  \cup {Select(<<"id", "name">>, StrApples, <<>>),
        Select(<<"name", "id">>, StrApples, <<>>),
        Select(<<"name", "id">>, StrApples, WhereName(Text(StrFuji))),
        Select(<<"name">>, StrPears, <<>>)}
  \cup {Other(".dbinfo"), Other(".tables"), Other("other"), Other("missing")}

(***************************************************************************)
(* State of one invocation of main                                         *)
(***************************************************************************)
VARIABLES
  db,          \* the database file: its content, as written by WriteFile
  fileBytes,   \* the bytes readable through fileHandle (none before open)
  fileExists,  \* whether open() finds the file
  command,     \* process.argv[3]
  pc,          \* position in main
  fileHandle,  \* "none", "open", "closed"
  pageSize,    \* main's pageSize
  tables,      \* main's tables
  select,      \* outcome of handleSelectCommand
  reads,       \* positions of the reads issued on the file handle
  error,       \* the exception in flight
  stdout,      \* console.log output, one string per call
  stderr,      \* console.error output
  exitCode,    \* process.exitCode, the status the process ends with
  stack,       \* the pending calls of readTableRows, innermost last
  call,        \* a direct call of a decoding function: its name and arguments
  ret,         \* what that call returned
  tasks,       \* the calls of readTableRows in flight when children are scanned concurrently
  filePosition, \* the current position of the file handle
  queries,     \* DNS forwarder: the client queries received, each with its polling timer
  forwarded,   \* DNS forwarder: the requests sent to the upstream server
  answers,     \* DNS forwarder: state.answers
  responses,   \* DNS forwarder: the responses sent to clients
  connection   \* HTTP server: one client connection, its buffer and what was written to it

\* the variables of the step-by-step scan and of the direct calls
scanVars == <<stack>>
codecVars == <<call, ret>>
concVars == <<tasks, filePosition>>
dnsVars == <<queries, forwarded, answers, responses>>
httpVars == <<connection>>

\* a connection no client has made
NotConnected == [state |-> "none"]

vars == <<db, fileBytes, fileExists, command, pc, fileHandle, pageSize, tables, select,
          reads, error, stdout, stderr, exitCode, scanVars, codecVars, concVars, dnsVars, httpVars>>

NotRun == SelectResult("not run", <<>>, <<>>, <<>>, <<>>, <<>>)

\* no direct call is made; a call that has not returned
NoCall == [fn |-> "none"]
NotReturned == [err |-> "not returned"]

Init ==
  /\ db \in Databases
  /\ fileExists \in BOOLEAN
  /\ fileBytes = <<>>
  /\ fileExists = FALSE => db = Database(<<LeafPage(<<>>)>>, "ipk-null", NoDamage)
  /\ command \in Commands
  /\ pc = "open"
  /\ fileHandle = "none"
  /\ pageSize = 0
  /\ tables = <<>>
  /\ select = NotRun
  /\ reads = <<>>
  /\ error = NoErr
  /\ stdout = <<>>
  /\ stderr = <<>>
  /\ exitCode = 0
  /\ stack = <<>>
  /\ tasks = <<>>
  /\ filePosition = 0
  /\ queries = <<>>
  /\ forwarded = <<>>
  /\ answers = <<>>
  /\ responses = <<>>
  /\ connection = NotConnected
  /\ call = NoCall
  /\ ret = NotReturned

\* fileHandle = await open(filePath, 'r')
Open ==
  /\ pc = "open"
  /\ IF fileExists
     THEN /\ fileHandle' = "open" /\ pc' = "header" /\ error' = error
          /\ fileBytes' = Damaged(WriteFile(db.pages, db.variant, PageSize), db.damage,
                                  PageSize)
     ELSE /\ fileHandle' = fileHandle /\ pc' = "catch" /\ error' = ErrOpen
          /\ fileBytes' = fileBytes
  /\ UNCHANGED <<exitCode, scanVars, codecVars, concVars, dnsVars, httpVars>>
  /\ UNCHANGED <<db, fileExists, command, pageSize, tables, select, reads, stdout, stderr>>

\* const { pageSize } = await readDatabaseHeader(fileHandle)
ReadDatabaseHeader ==
  /\ pc = "header"
  /\ pageSize' = readDatabaseHeader(fileBytes).pageSize
  /\ reads' = Append(reads, 0)
  /\ pc' = "schemas"
  /\ UNCHANGED <<exitCode, scanVars, codecVars, concVars, dnsVars, httpVars>>
  /\ UNCHANGED <<db, fileBytes, fileExists, command, fileHandle, tables, select, error,
                 stdout, stderr>>

\* what main does with the outcome r of readTableSchemas
SchemasReturn(r) ==
  IF r.err = NoErr
  THEN tables' = r.tables /\ error' = error /\ pc' = "command"
  ELSE tables' = tables /\ error' = r.err /\ pc' = "catch"

\* const tables = await readTableSchemas(fileHandle, pageSize)
ReadTableSchemas ==
  /\ pc = "schemas"
  /\ SchemasReturn(readTableSchemas(fileBytes, pageSize))
  /\ reads' = Append(reads, 0)
  /\ UNCHANGED <<exitCode, scanVars, codecVars, concVars, dnsVars, httpVars>>
  /\ UNCHANGED <<db, fileBytes, fileExists, command, fileHandle, pageSize, select,
                 stdout, stderr>>

\* command === '.dbinfo'
DbInfo ==
  /\ pc = "command"
  /\ command.kind = ".dbinfo"
  /\ stdout' = stdout \o <<StrPageSizeLabel \o NumberToString(pageSize),
                           StrTablesLabel \o NumberToString(Len(tables))>>
  /\ pc' = "finally"
  /\ UNCHANGED <<exitCode, scanVars, codecVars, concVars, dnsVars, httpVars>>
  /\ UNCHANGED <<db, fileBytes, fileExists, command, fileHandle, pageSize, tables, select,
                 reads, error, stderr>>

\* command === '.tables'
ListTables ==
  /\ pc = "command"
  /\ command.kind = ".tables"
  /\ stdout' = Append(stdout, filterAndFormatListOfTables(tables))
  /\ pc' = "finally"
  /\ UNCHANGED <<exitCode, scanVars, codecVars, concVars, dnsVars, httpVars>>
  /\ UNCHANGED <<db, fileBytes, fileExists, command, fileHandle, pageSize, tables, select,
                 reads, error, stderr>>

\* command.toUpperCase().startsWith('SELECT')
HandleSelectCommand ==
  /\ pc = "command"
  /\ command.kind = "SELECT"
  /\ select' = handleSelectCommand(command, fileBytes, pageSize, tables)
  /\ reads' = reads \o select'.reads
  /\ stdout' = stdout \o select'.logged
  /\ error' = IF select'.err = NoErr THEN error ELSE select'.err
  /\ pc' = IF select'.err = NoErr THEN "finally" ELSE "catch"
  /\ UNCHANGED <<exitCode, scanVars, codecVars, concVars, dnsVars, httpVars>>
  /\ UNCHANGED <<db, fileBytes, fileExists, command, fileHandle, pageSize, tables, stderr>>

\* any other command string: no branch is taken
OtherCommand ==
  /\ pc = "command"
  /\ command.kind = "other"
  /\ pc' = "finally"
  /\ UNCHANGED <<exitCode, scanVars, codecVars, concVars, dnsVars, httpVars>>
  /\ UNCHANGED <<db, fileBytes, fileExists, command, fileHandle, pageSize, tables, select,
                 reads, error, stdout, stderr>>

\* no command argument: command is undefined and command.toUpperCase() throws
MissingCommand ==
  /\ pc = "command"
  /\ command.kind = "missing"
  /\ error' = ErrType
  /\ pc' = "catch"
  /\ UNCHANGED <<exitCode, scanVars, codecVars, concVars, dnsVars, httpVars>>
  /\ UNCHANGED <<db, fileBytes, fileExists, command, fileHandle, pageSize, tables, select,
                 reads, stdout, stderr>>

\* catch (err) { console.error('Fatal error:', err) }
Catch ==
  /\ pc = "catch"
  /\ stderr' = Append(stderr, error)
  /\ pc' = "finally"
  /\ UNCHANGED <<exitCode, scanVars, codecVars, concVars, dnsVars, httpVars>>
  /\ UNCHANGED <<db, fileBytes, fileExists, command, fileHandle, pageSize, tables, select,
                 reads, error, stdout>>

\* mutant: the handle is closed at the end of the try block, not in finally
Finally_OnlyOnSuccess ==
  /\ pc = "finally"
  /\ fileHandle' = IF fileHandle = "open" /\ error = NoErr THEN "closed" ELSE fileHandle
  /\ pc' = "done"
  /\ UNCHANGED <<exitCode, scanVars, codecVars, concVars, dnsVars, httpVars>>
  /\ UNCHANGED <<db, fileBytes, fileExists, command, pageSize, tables, select, reads, error,
                 stdout, stderr>>

\* finally { if (fileHandle) await fileHandle.close() }
Finally ==
  /\ pc = "finally"
  /\ fileHandle' = IF fileHandle = "open" THEN "closed" ELSE fileHandle
  /\ pc' = "done"
  /\ UNCHANGED <<exitCode, scanVars, codecVars, concVars, dnsVars, httpVars>>
  /\ UNCHANGED <<db, fileBytes, fileExists, command, pageSize, tables, select, reads, error,
                 stdout, stderr>>

Next ==
  \/ Open
  \/ ReadDatabaseHeader
  \/ ReadTableSchemas
  \/ DbInfo
  \/ ListTables
  \/ HandleSelectCommand
  \/ OtherCommand
  \/ MissingCommand
  \/ Catch
  \/ Finally

Spec == Init /\ [][Next]_vars

(***************************************************************************)
(* Properties                                                              *)
(***************************************************************************)
\* the pages of the file as described, by page number
Pages == PageAt(db.pages)

\* the rowids of the cells a row sequence was decoded from
CellRowIds(rows) == [i \in 1..Len(rows) |-> rows[i].cell.n]

StrictlyAscending(s) == \A i, j \in 1..Len(s) : i < j => s[i] < s[j]

\* the table B-tree as stored is well formed: its keys ascend within each
\* page and across the children of every interior page, left to right
WellFormed == StrictlyAscending(StoredRowIds(Pages, 2))

\* the handler has run on a SELECT naming apples and returned normally
ScannedApples ==
  /\ select.err = NoErr
  /\ command.kind = "SELECT"
  /\ command.queryTableName = StrApples

\* the catalog entry of apples and what parseColumns derives from it
ApplesEntry == tables[FindTable(tables, StrApples)]
ApplesColumns == parseColumns(MapGet(ApplesEntry, "schemaBody"))

\* C1: for a table whose root is an interior page with two leaf children,
\* the full scan returns every row stored in both leaves, and SELECT
\* count(*) without a predicate prints the number of rows stored.
C1_CountOfTwoLeafTable ==
  ( /\ pc = "done"
    /\ fileExists
    /\ command = Select(<<"count(*)">>, StrApples, <<>>)
    /\ Pages[2].kind = "interior"
    /\ Len(Children(Pages, 2)) = 2
    /\ \A i \in 1..2 : Pages[Children(Pages, 2)[i]].kind = "leaf" )
  => /\ select.err = NoErr
     /\ CellRowIds(select.rows) = StoredRowIds(Pages, 2)
     /\ stdout = <<NumberToString(Len(StoredRowIds(Pages, 2)))>>

\* C2: on a well-formed table B-tree the rows returned by readTableRows are
\* strictly ascending by rowid.
C2_ScanAscendingByRowId ==
  (ScannedApples /\ WellFormed) => StrictlyAscending(CellRowIds(select.rows))

\* C2 witness: a well-formed tree whose interior root was scanned, with
\* rows taken from two different leaves
C2_Witness ==
  /\ ScannedApples
  /\ WellFormed
  /\ Pages[2].kind = "interior"
  /\ Len(Pages[2].children) = 2
  /\ Len(select.rows) >= 2
  /\ \E i \in 1..Len(Pages[3].rowIds) : Pages[3].rowIds[i] = select.rows[1].cell.n
  /\ \E i \in 1..Len(Pages[4].rowIds) : Pages[4].rowIds[i] = select.rows[Len(select.rows)].cell.n

\* C3: when the table declares an integer-primary-key alias column, every
\* row of a scan has, for that column, the rowId of the cell it was decoded
\* from, whatever the record stores for the column.
C3_AliasColumnIsRowId ==
  (ScannedApples /\ ApplesColumns.identityColumn # NoColumn)
  => \A i \in 1..Len(select.rows) :
       MapGet(select.rows[i].cols, ApplesColumns.identityColumn) = select.rows[i].cell

\* C3 witness: the record stores the literal 2 for the alias column and a
\* scanned row comes from a cell with another rowid
C3_Witness ==
  /\ ScannedApples
  /\ ApplesColumns.identityColumn = "id"
  /\ db.variant = "ipk-literal"
  /\ \E i \in 1..Len(select.rows) :
       /\ select.rows[i].cell.n # 2
       /\ MapGet(select.rows[i].cols, "id") = Num(select.rows[i].cell.n)

\* C4: for SELECT count(*) without a predicate the printed integer is the
\* length of the row sequence a scan of the table from its root returns.
C4_CountIsScanLength ==
  (ScannedApples /\ command.queryColumns = <<"count(*)">> /\ command.whereClause = <<>>)
  => LET scan == readTableRows(fileBytes, MapGet(ApplesEntry, "rootPage").n, pageSize,
                               ApplesColumns.columns, ApplesColumns.identityColumn)
     IN  stdout = <<NumberToString(Len(scan.rows))>>

\* C4 witness: an unfiltered count over a scan of at least two rows was printed
C4_Witness ==
  /\ ScannedApples
  /\ command.queryColumns = <<"count(*)">>
  /\ command.whereClause = <<>>
  /\ Len(select.rows) >= 2
  /\ Len(stdout) = 1

\* C5: when the query names a table that is not in the catalog, the handler
\* raises "table not found" before any table page is read, and nothing is
\* written to standard output.
C5_TableNotFound ==
  ( /\ select.err # "not run"
    /\ \A i \in 1..Len(tables) : MapGet(tables[i], "tableName") # Text(command.queryTableName) )
  => /\ select.err = ErrNotFound
     /\ select.reads = <<>>
     /\ reads = <<0, 0>>
     /\ stdout = <<>>
     /\ pc \in {"catch", "finally", "done"}
     /\ pc = "done" => stderr = <<ErrNotFound>>

\* C5 witness: a query on pears has been handled and main has finished
C5_Witness ==
  /\ pc = "done"
  /\ command.kind = "SELECT"
  /\ command.queryTableName = StrPears
  /\ Len(tables) >= 1
  /\ select.err = ErrNotFound

\* C6: an equality predicate on the integer-primary-key alias column whose
\* literal is an existing rowid retains the row with that rowid; for
\* apples = (1,'fuji'),(2,'honeycrisp') on one leaf page,
\* SELECT name FROM apples WHERE id = 2 prints exactly honeycrisp.
C6_FilterOnAliasColumn ==
  /\ ( /\ ScannedApples
       /\ ApplesColumns.identityColumn = "id"
       /\ command.whereClause = WhereId(Num(2))
       /\ \E i \in 1..Len(select.rows) : select.rows[i].cell = Num(2) )
     => /\ Len(select.filteredRows) = 1
        /\ select.filteredRows[1].cell = Num(2)
  /\ ( /\ pc = "done"
       /\ fileExists
       /\ db = Database(<<LeafPage(<<1, 2>>)>>, "ipk-null", NoDamage)
       /\ command = Select(<<"name">>, StrApples, WhereId(Num(2))) )
     => stdout = <<StrHoneycrisp>>

\* C6 witness: the scenario has run to its end
C6_Witness ==
  /\ pc = "done"
  /\ db = Database(<<LeafPage(<<1, 2>>)>>, "ipk-null", NoDamage)
  /\ command = Select(<<"name">>, StrApples, WhereId(Num(2)))
  /\ Len(select.rows) = 2
  /\ stdout = <<StrHoneycrisp>>

\* whether row i of the scan has, in the predicate's column, a value of the
\* literal's type and content
C7_Matches(i) ==
  LET v == MapGet(select.rows[i].cols, command.whereClause[1].column)
      literal == command.whereClause[1].value
  IN  v.t = literal.t /\ v.n = literal.n /\ v.b = literal.b

\* the position in the scan of the k-th matching row
C7_KthMatch(k) ==
  CHOOSE i \in 1..Len(select.rows) :
    C7_Matches(i) /\ Cardinality({j \in 1..i : C7_Matches(j)}) = k

\* C7: applyFilter returns exactly the rows of the scan whose value for the
\* predicate column equals the literal, without coercion between types, in
\* the order of the scan; without a predicate it returns the scan unchanged.
C7_FilterExact ==
  ScannedApples
  => IF command.whereClause = <<>> THEN select.filteredRows = select.rows
     ELSE /\ Len(select.filteredRows)
               = Cardinality({i \in 1..Len(select.rows) : C7_Matches(i)})
          /\ \A k \in 1..Len(select.filteredRows) :
               select.filteredRows[k] = select.rows[C7_KthMatch(k)]

\* C7 witness: a predicate on name kept two rows of a scan and dropped one
\* that lies between them
C7_Witness ==
  /\ ScannedApples
  /\ command.whereClause = WhereName(Text(StrFuji))
  /\ CellRowIds(select.rows) = <<1, 2, 3>>
  /\ CellRowIds(select.filteredRows) = <<1, 3>>

RECURSIVE SplitAt(_, _)
\* the pieces of a text between the occurrences of a separator
SplitAt(text, separator) ==
  IF \A i \in 1..Len(text) : text[i] # separator THEN <<text>>
  ELSE LET first == CHOOSE i \in 1..Len(text) :
                      text[i] = separator /\ \A j \in 1..(i - 1) : text[j] # separator
       IN  <<SubSeq(text, 1, first - 1)>> \o SplitAt(SubSeq(text, first + 1, Len(text)), separator)

\* the text shown for a value of the generated tables
C8_Shown(v) ==
  IF v.t = "string" THEN v.b ELSE IF v.t = "number" THEN NumberToString(v.n) ELSE <<>>

\* C8: for a query that is not count(*), the output has one entry per
\* filtered row, in scan order, and the entry holds the values of the
\* requested columns, in the order requested.
C8_ProjectionPerRow ==
  (ScannedApples /\ command.queryColumns # <<"count(*)">>)
  => /\ Len(select.result) = Len(select.filteredRows)
     /\ \A i \in 1..Len(select.result) :
          SplitAt(select.result[i], 124)
            = [j \in 1..Len(command.queryColumns) |->
                 C8_Shown(MapGet(select.filteredRows[i].cols, command.queryColumns[j]))]
     /\ Len(stdout) = 1
     /\ IF Len(select.result) = 0 THEN stdout[1] = <<>>
        ELSE SplitAt(stdout[1], 10) = select.result

\* C8 witness: name, id was projected from two filtered rows of a longer scan
C8_Witness ==
  /\ ScannedApples
  /\ command.queryColumns = <<"name", "id">>
  /\ Len(select.filteredRows) = 2
  /\ Len(select.rows) = 3
  /\ select.result = <<StrFuji \o <<124, 49>>, StrFuji \o <<124, 51>>>>

\* the scan of the subtree of page p, as the handler scans apples
C9_Scan(p) ==
  readTableRows(fileBytes, p, pageSize, ApplesColumns.columns, ApplesColumns.identityColumn)

\* C9: scanning an interior page whose children are C1, C2, C3 returns
\* scan(C1) ++ scan(C2) ++ scan(C3).
C9_ConcatenationLaw ==
  (ScannedApples /\ Pages[2].kind = "interior" /\ Len(Children(Pages, 2)) = 3)
  => select.rows = C9_Scan(Children(Pages, 2)[1]).rows
                   \o C9_Scan(Children(Pages, 2)[2]).rows
                   \o C9_Scan(Children(Pages, 2)[3]).rows

\* the decoding of leaf page p of the file, given its buffer
C10_LeafDecoded(p, buffer) ==
  Let(parseTableLeafPage(13, BigEndian(buffer, 3, 2), buffer, ApplesColumns.columns,
                         ApplesColumns.identityColumn),
      LAMBDA r : /\ r.err = NoErr
                 /\ BigEndian(buffer, 3, 2) = Len(Pages[p].rowIds)
                 /\ Len(r.rows) = Len(Pages[p].rowIds)
                 /\ \A i \in 1..Len(r.rows) :
                      Cardinality(DOMAIN r.rows[i].cols) = Len(ApplesColumns.columns))

\* C10: decoding a leaf table page with n cells yields exactly n rows, each
\* with exactly len(columnNames) entries.
C10_LeafRowCount ==
  ScannedApples
  => /\ \A p \in DOMAIN Pages :
          Pages[p].kind = "leaf"
          => C10_LeafDecoded(p, FileRead(fileBytes, pageSize, (p - 1) * pageSize).buffer)
     /\ Pages[2].kind = "leaf"
        => /\ Len(select.rows) = Len(Pages[2].rowIds)
           /\ \A i \in 1..Len(select.rows) :
                Cardinality(DOMAIN select.rows[i].cols) = Len(ApplesColumns.columns)

\* C10 witness: a leaf root page with MaxCells cells was decoded
C10_Witness ==
  /\ ScannedApples
  /\ Pages[2].kind = "leaf"
  /\ Len(Pages[2].rowIds) = MaxCells
  /\ Len(select.rows) = MaxCells
  /\ Len(ApplesColumns.columns) = 2

\* C11: whenever a step of an invocation raises a fatal error, the error
\* is written to the error stream and the process ends with a non-zero
\* exit status.
C11_FatalErrorExitsNonZero ==
  (pc = "done" /\ error # NoErr) => (stderr = <<error>> /\ exitCode # 0)

\* the handler has run on a SELECT naming apples, normally or not
HandlerRanOnApples ==
  /\ select.err # "not run"
  /\ command.queryTableName = StrApples

\* a page of apples that the scan decodes is damaged
ScannedPageDamaged ==
  /\ db.damage.kind \in {"serial", "pagetype"}
  /\ db.damage.page >= 2

CatalogPageUnsupported ==
  \/ db.variant = "catalog-0a"
  \/ db.damage.kind = "pagetype" /\ db.damage.page = 1

\* C14: a page of type 0x0a, 0x02 or any type other than 0x0d and 0x05 is a
\* fatal decode error wherever a page is classified: the catalog read fails
\* with the page-type error before it decodes a cell, and so does the scan.
C14_UnsupportedPageTypeIsFatal ==
  /\ (CatalogPageUnsupported /\ pc \notin {"open", "header", "schemas"})
     => (error = ErrPageType /\ tables = <<>>)
  /\ (HandlerRanOnApples /\ db.damage.kind = "pagetype" /\ db.damage.page >= 2)
     => (select.err \in {ErrPageType, ErrUnknownPage} /\ select.rows = <<>>)

\* "sqlite_", the prefix of the names of internal catalog objects
StrInternalPrefix == <<115, 113, 108, 105, 116, 101, 95>>

\* the names of the tables of the catalog that are not internal
UserTableNames ==
  {MapGet(tables[i], "tableName").b :
     i \in {j \in 1..Len(tables) :
              /\ MapGet(tables[j], "schemaType") = Text(StrTable)
              /\ Subarray(MapGet(tables[j], "tableName").b, 0, 7) # StrInternalPrefix}}

\* the names of a set, each once, in ascending order
Ascending(names) ==
  CHOOSE s \in [1..Cardinality(names) -> names] :
    \A i, j \in 1..Cardinality(names) : i < j => CodeUnitLess(s[i], s[j])

\* C15: .tables prints the names of all non-internal tables of the catalog,
\* each once, in alphabetical order, separated by single spaces.
C15_TablesListing ==
  (pc = "done" /\ command.kind = ".tables" /\ error = NoErr)
  => /\ Len(stdout) = 1
     /\ IF UserTableNames = {} THEN stdout[1] = <<>>
        ELSE SplitAt(stdout[1], 32) = Ascending(UserTableNames)

\* C16: .dbinfo prints the page size of the file header and the number of
\* tables: catalog entries that are not tables are not counted.
C16_DbInfo ==
  (pc = "done" /\ command.kind = ".dbinfo" /\ error = NoErr)
  => stdout = <<StrPageSizeLabel \o NumberToString(BigEndian(fileBytes, 16, 2)),
                StrTablesLabel
                  \o NumberToString(Cardinality({i \in 1..Len(tables) :
                                       MapGet(tables[i], "schemaType") = Text(StrTable)}))>>

\* C17: a command that is not .dbinfo, .tables or a SELECT, a missing
\* command included, prints nothing on standard output and nothing on the
\* error stream (the file opens and its catalog decodes).
C17_OtherCommandSilent ==
  (pc = "done" /\ command.kind \in {"other", "missing"} /\ tables # <<>>)
  => (stdout = <<>> /\ stderr = <<>>)

\* the catalog entry of cell i, its pointer read at byte 100 + 8 + 2 (i - 1)
\* and its content at the pointer plus `shift`
CatalogEntryAt(i, shift) ==
  Try(readCell(13, Subarray(fileBytes, 0, pageSize),
               BigEndian(fileBytes, DATABASE_HEADER_SIZE + 8 + 2 * (i - 1), 2) + shift),
      LAMBDA c : parseTableSchema(c.record))

\* the catalog of a file with a table leaf page as its first page was read
CatalogRead ==
  fileExists /\ ~CatalogPageUnsupported /\ pc \notin {"open", "header", "schemas"}

\* C23 as stated: every offset of the catalog read is shifted by 100
\* relative to a normal page: the page-type byte, the cell count, the cell
\* pointers and the cell contents the pointers refer to; the result has
\* cellCount entries in cell-pointer order.
C23_AllOffsetsShifted ==
  CatalogRead
  => /\ fileBytes[DATABASE_HEADER_SIZE + 1] = 13
     /\ Len(tables) = BigEndian(fileBytes, DATABASE_HEADER_SIZE + 3, 2)
     /\ \A i \in 1..Len(tables) :
          CatalogEntryAt(i, DATABASE_HEADER_SIZE) = [err |-> NoErr, record |-> tables[i]]

\* C23 amended: the page-type byte, the cell count and the cell pointers of
\* the catalog are read at offsets shifted by 100, the content of a cell at
\* the offset its pointer states, counted from the start of the page; the
\* result has cellCount entries in cell-pointer order.
C23_HeaderShiftedCellsAtPointer ==
  CatalogRead
  => /\ fileBytes[DATABASE_HEADER_SIZE + 1] = 13
     /\ Len(tables) = BigEndian(fileBytes, DATABASE_HEADER_SIZE + 3, 2)
     /\ Len(tables) >= 1
     /\ \A i \in 1..Len(tables) :
          CatalogEntryAt(i, 0) = [err |-> NoErr, record |-> tables[i]]

\* a catalog of two entries was read, apples the second
C23_Witness ==
  /\ CatalogRead
  /\ db.variant = "plain"
  /\ Len(tables) = 2
  /\ MapGet(tables[1], "tableName") = Text(StrSqliteSequence)
  /\ MapGet(tables[2], "tableName") = Text(StrApples)

\* C25: once main has opened the file, the handle is closed exactly once
\* before main finishes, whether the command succeeded, did nothing or a
\* step raised an error, and no read is issued on a closed handle.
C25_HandleClosedOnce ==
  /\ []((pc = "done" /\ fileExists) => fileHandle = "closed")
  /\ [][/\ fileHandle' = "closed" /\ fileHandle # "closed" => fileHandle = "open" /\ pc' = "done"
        /\ fileHandle = "closed" => fileHandle' = "closed" /\ reads' = reads]_vars

\* main has finished after a query failed during its scan, the handle closed
C25_Witness ==
  /\ pc = "done"
  /\ fileHandle = "closed"
  /\ select.err = ErrSerial
  /\ Len(reads) >= 3
  /\ stderr = <<ErrSerial>>

(***************************************************************************)
(* The scan, one call of readTableRows at a time.  readTableRows is an     *)
(* async function: every call awaits the read of its page and, on an       *)
(* interior page, the calls for its children, one after the other.  stack  *)
(* holds the calls that have not returned.  Only the MaxDepth innermost    *)
(* calls are kept: when a deeper call is made, the outermost ones are      *)
(* replaced by the frame Forgotten, into which no call returns.            *)
(***************************************************************************)
\* how many pending calls the model keeps
MaxDepth == 4

\* a call of readTableRows(page) that has not read its page yet
CallFrame(page) == [page |-> page, phase |-> "call", childPointers |-> <<>>, i |-> 1, rows |-> <<>>]
Forgotten == [page |-> 0, phase |-> "forgotten", childPointers |-> <<>>, i |-> 1, rows |-> <<>>]

Top == stack[Len(stack)]
Push(frames, frame) ==
  IF Len(frames) < MaxDepth THEN Append(frames, frame)
  ELSE <<Forgotten>> \o SubSeq(frames, 3, Len(frames)) \o <<frame>>
ReplaceTop(frames, frame) == [frames EXCEPT ![Len(frames)] = frame]

\* the catalog entry the query names, and its columns
QueryTable == tables[FindTable(tables, parseSelectCommand(command).queryTableName)]
QueryColumns == parseColumns(MapGet(QueryTable, "schemaBody"))

\* one call of readTableRows once the read of its page has completed, up
\* to its return or its loop over the children
PageOutcome(read, columns, identityColumn) ==
  Try(read, LAMBDA rd :
  Try(ReadPageHeader(rd.buffer), LAMBDA h :
    IF h.pageType = 13
    THEN Try(parseTableLeafPage(h.pageType, h.numberOfCells, rd.buffer, columns,
                                identityColumn),
             LAMBDA leaf : [err |-> NoErr, phase |-> "return", rows |-> leaf.rows,
                            childPointers |-> <<>>])
    ELSE IF h.pageType = 5
    THEN Try(parseTableInteriorPage(h.pageType, h.numberOfCells, rd.buffer),
             LAMBDA cp : [err |-> NoErr, phase |-> "loop", rows |-> <<>>,
                          childPointers |-> cp.childPointers])
    ELSE Throw(ErrUnknownPage)))

\* one call of readTableRows up to its return or its loop over the children
ReadOnePage(fileContent, page, pageSize_, columns, identityColumn) ==
  PageOutcome(FileRead(fileContent, pageSize_, (page - 1) * pageSize_), columns,
              identityColumn)

\* handleSelectCommand up to the call of readTableRows on the root page
ScanStart ==
  /\ pc = "command"
  /\ command.kind = "SELECT"
  /\ IF FindTable(tables, parseSelectCommand(command).queryTableName) = 0
     THEN stack' = stack /\ error' = ErrNotFound /\ pc' = "catch"
     ELSE /\ stack' = <<CallFrame(MapGet(QueryTable, "rootPage").n)>>
          /\ error' = error
          /\ pc' = "scan"
  /\ UNCHANGED <<exitCode, codecVars, concVars, dnsVars, httpVars>>
  /\ UNCHANGED <<db, fileBytes, fileExists, command, fileHandle, pageSize, tables, select, reads,
                 stdout, stderr>>

\* what the innermost call does with the outcome r of reading its page: an
\* exception leaves every pending call
Entered(r) ==
  IF r.err # NoErr
  THEN stack' = <<>> /\ error' = r.err /\ pc' = "catch"
  ELSE /\ stack' = ReplaceTop(stack, [page |-> Top.page, phase |-> r.phase,
                                      childPointers |-> r.childPointers, i |-> 1,
                                      rows |-> r.rows])
       /\ error' = error
       /\ pc' = pc

\* the innermost call reads its page and decodes it (of the positions read,
\* the model records the first MaxDepth + 2)
ScanEnter ==
  /\ pc = "scan"
  /\ Top.phase = "call"
  /\ Entered(ReadOnePage(fileBytes, Top.page, pageSize, QueryColumns.columns,
                         QueryColumns.identityColumn))
  /\ reads' = IF Len(reads) < MaxDepth + 2 THEN Append(reads, (Top.page - 1) * pageSize)
               ELSE reads
  /\ UNCHANGED <<exitCode, codecVars, concVars, dnsVars, httpVars>>
  /\ UNCHANGED <<db, fileBytes, fileExists, command, fileHandle, pageSize, tables, select,
                 stdout, stderr>>

\* the loop over childPointers calls readTableRows for the next child
ScanDescend ==
  /\ pc = "scan"
  /\ Top.phase = "loop"
  /\ Top.i <= Len(Top.childPointers)
  /\ stack' = Push(stack, CallFrame(Top.childPointers[Top.i]))
  /\ UNCHANGED <<exitCode, codecVars, concVars, dnsVars, httpVars>>
  /\ UNCHANGED <<db, fileBytes, fileExists, command, pc, fileHandle, pageSize, tables, select,
                 reads, error, stdout, stderr>>

\* the innermost call has its rows
Returning ==
  /\ pc = "scan"
  /\ \/ Top.phase = "return"
     \/ Top.phase = "loop" /\ Top.i > Len(Top.childPointers)

\* a call returns its rows to the loop of its caller
ScanReturn ==
  /\ Returning
  /\ Len(stack) > 1
  /\ stack[Len(stack) - 1].phase = "loop"
  /\ stack' = ReplaceTop(SubSeq(stack, 1, Len(stack) - 1),
                         [stack[Len(stack) - 1] EXCEPT !.i = @ + 1,
                                                       !.rows = @ \o Top.rows])
  /\ UNCHANGED <<exitCode, codecVars, concVars, dnsVars, httpVars>>
  /\ UNCHANGED <<db, fileBytes, fileExists, command, pc, fileHandle, pageSize, tables, select,
                 reads, error, stdout, stderr>>

\* the call on the root page returns: the handler filters and prints
ScanFinish ==
  /\ Returning
  /\ Len(stack) = 1
  /\ stack' = <<>>
  /\ select' = SelectResult(NoErr, <<>>, Top.rows,
                            applyFilter(Top.rows, parseSelectCommand(command).whereClause),
                            SelectOutput(parseSelectCommand(command).queryColumns,
                                         applyFilter(Top.rows, parseSelectCommand(command).whereClause)).result,
                            <<SelectOutput(parseSelectCommand(command).queryColumns,
                                           applyFilter(Top.rows, parseSelectCommand(command).whereClause)).printed>>)
  /\ stdout' = stdout \o select'.logged
  /\ pc' = "finally"
  /\ UNCHANGED <<exitCode, codecVars, concVars, dnsVars, httpVars>>
  /\ UNCHANGED <<db, fileBytes, fileExists, command, fileHandle, pageSize, tables, reads, error,
                 stderr>>

\* files for the step-by-step scan: a leaf root, an interior root with two
\* leaves, a two-level tree; whole, with a damaged leaf, and with the first
\* child pointer of an interior page overwritten by the number of the page
\* itself or of its parent
ScanDatabases ==
  {Database(tp, "ipk-null", NoDamage) :
     tp \in {<<LeafPage(<<1>>)>>,
             <<InteriorPage(<<3>>, 4), LeafPage(<<1>>), LeafPage(<<>>)>>,
             <<InteriorPage(<<3>>, 4), InteriorPage(<<5>>, 6), LeafPage(<<>>),
               LeafPage(<<1>>), LeafPage(<<>>)>>}}
  \cup {Database(<<InteriorPage(<<3>>, 4), LeafPage(<<1>>), LeafPage(<<>>)>>, "ipk-null", d) :
          d \in {Damage("child", 2, 2), Damage("serial", 3, 11)}}
  \cup {Database(<<InteriorPage(<<3>>, 4), InteriorPage(<<5>>, 6), LeafPage(<<>>),
                   LeafPage(<<1>>), LeafPage(<<>>)>>, "ipk-null", d) :
          d \in {Damage("child", 3, 2), Damage("child", 3, 3), Damage("pagetype", 5, 10)}}

ScanCommands ==
  {Select(<<"count(*)">>, StrApples, <<>>),
   Select(<<"name">>, StrApples, <<>>),
   Select(<<"name", "id">>, StrApples, WhereId(Num(1))),
   Select(<<"name">>, StrPears, <<>>)}

\* main has opened the file and the query is about to run
ScanInit ==
  /\ db \in ScanDatabases
  /\ fileBytes = Damaged(WriteFile(db.pages, db.variant, PageSize), db.damage, PageSize)
  /\ fileExists = TRUE
  /\ command \in ScanCommands
  /\ pc = "header"
  /\ fileHandle = "open"
  /\ pageSize = 0
  /\ tables = <<>>
  /\ select = NotRun
  /\ reads = <<>>
  /\ error = NoErr
  /\ stdout = <<>>
  /\ stderr = <<>>
  /\ exitCode = 0
  /\ stack = <<>>
  /\ tasks = <<>>
  /\ filePosition = 0
  /\ queries = <<>>
  /\ forwarded = <<>>
  /\ answers = <<>>
  /\ responses = <<>>
  /\ connection = NotConnected
  /\ call = NoCall
  /\ ret = NotReturned

ScanNext ==
  \/ ReadDatabaseHeader
  \/ ReadTableSchemas
  \/ ScanStart
  \/ ScanEnter
  \/ ScanDescend
  \/ ScanReturn
  \/ ScanFinish
  \/ Catch
  \/ Finally

\* the event loop runs every continuation that is ready
ScanSpec == ScanInit /\ [][ScanNext]_vars /\ WF_vars(ScanNext)

\* C13: every query runs to completion or fails fatally: the recursive scan
\* from the root page of the table ends, with rows or with an error, also
\* when a child pointer refers to the page itself or to an ancestor.
C13_ScanTerminates == <>(pc = "done")

(***************************************************************************)
(* The scan with the children of an interior page scanned concurrently:    *)
(* every call of readTableRows is a task named by its path of cell         *)
(* numbers from the root; an interior page starts one task per child       *)
(* pointer, the reads complete in any order, and the rows of the children  *)
(* are concatenated in cell order once all of them have returned.          *)
(***************************************************************************)
RootPath == <<1>>

\* a call of readTableRows(page) whose read has been issued
Task(page) == [page |-> page, phase |-> "reading", children |-> 0, rows |-> <<>>]

\* mutant: the read leaves out the position and reads at the handle's own
\* position, which it moves
HandleRead_AtCurrent(fileContent, current, length, position) ==
  [read |-> FileRead(fileContent, length, current), current |-> current + length]

\* fileHandle.read({length, position, buffer: Buffer.alloc(length)}): the
\* bytes at `position` in a buffer of the call's own; the position of the
\* handle is not used and not moved
HandleRead(fileContent, current, length, position) ==
  [read |-> FileRead(fileContent, length, position), current |-> current]

\* handleSelectCommand up to the call of readTableRows on the root page
ConcStart ==
  /\ pc = "command"
  /\ command.kind = "SELECT"
  /\ IF FindTable(tables, parseSelectCommand(command).queryTableName) = 0
     THEN tasks' = tasks /\ error' = ErrNotFound /\ pc' = "catch"
     ELSE /\ tasks' = [path \in {RootPath} |-> Task(MapGet(QueryTable, "rootPage").n)]
          /\ error' = error
          /\ pc' = "scan"
  /\ UNCHANGED <<exitCode, scanVars, codecVars, dnsVars, httpVars, filePosition>>
  /\ UNCHANGED <<db, fileBytes, fileExists, command, fileHandle, pageSize, tables, select, reads,
                 stdout, stderr>>

\* the tasks after the task at `path` has decoded its page with outcome r:
\* a leaf returns its rows, an interior page starts a task per child pointer
Spawned(path, r) ==
  IF r.phase = "return"
  THEN [tasks EXCEPT ![path] = [@ EXCEPT !.phase = "done", !.rows = r.rows]]
  ELSE [q \in DOMAIN tasks \cup {Append(path, i) : i \in 1..Len(r.childPointers)} |->
          IF q = path THEN [tasks[path] EXCEPT !.phase = "waiting",
                                               !.children = Len(r.childPointers)]
          ELSE IF q \in DOMAIN tasks THEN tasks[q]
          ELSE Task(r.childPointers[q[Len(q)]])]

\* an exception in a task rejects the whole scan
TaskDecoded(path, r) ==
  IF r.err # NoErr
  THEN tasks' = <<>> /\ error' = r.err /\ pc' = "catch"
  ELSE tasks' = Spawned(path, r) /\ error' = error /\ pc' = pc

TaskEntered(path, hr) ==
  /\ filePosition' = hr.current
  /\ TaskDecoded(path, PageOutcome(hr.read, QueryColumns.columns, QueryColumns.identityColumn))

\* the read of some task completes and the task decodes its page
TaskRead ==
  /\ pc = "scan"
  /\ \E path \in DOMAIN tasks :
       /\ tasks[path].phase = "reading"
       /\ TaskEntered(path, HandleRead(fileBytes, filePosition, pageSize,
                                       (tasks[path].page - 1) * pageSize))
       /\ reads' = Append(reads, (tasks[path].page - 1) * pageSize)
  /\ UNCHANGED <<exitCode, scanVars, codecVars, dnsVars, httpVars>>
  /\ UNCHANGED <<db, fileBytes, fileExists, command, fileHandle, pageSize, tables, select,
                 stdout, stderr>>

\* all children of a task have returned: their rows in cell order
TaskJoin ==
  /\ pc = "scan"
  /\ \E path \in DOMAIN tasks :
       /\ tasks[path].phase = "waiting"
       /\ \A i \in 1..tasks[path].children : tasks[Append(path, i)].phase = "done"
       /\ tasks' = [q \in DOMAIN tasks \ {Append(path, i) : i \in 1..tasks[path].children} |->
                      IF q = path
                      THEN [tasks[path] EXCEPT
                              !.phase = "done",
                              !.rows = Flatten([i \in 1..tasks[path].children |->
                                                  tasks[Append(path, i)].rows])]
                      ELSE tasks[q]]
  /\ UNCHANGED <<exitCode, scanVars, codecVars, dnsVars, httpVars, filePosition>>
  /\ UNCHANGED <<db, fileBytes, fileExists, command, pc, fileHandle, pageSize, tables, select,
                 reads, error, stdout, stderr>>

\* what the handler does with the rows of the scan
Handled(rows) ==
  SelectResult(NoErr, <<>>, rows,
               applyFilter(rows, parseSelectCommand(command).whereClause),
               SelectOutput(parseSelectCommand(command).queryColumns,
                            applyFilter(rows, parseSelectCommand(command).whereClause)).result,
               <<SelectOutput(parseSelectCommand(command).queryColumns,
                              applyFilter(rows, parseSelectCommand(command).whereClause)).printed>>)

\* the task of the root page returns: the handler filters and prints
ConcFinish ==
  /\ pc = "scan"
  /\ RootPath \in DOMAIN tasks
  /\ tasks[RootPath].phase = "done"
  /\ select' = Handled(tasks[RootPath].rows)
  /\ stdout' = stdout \o select'.logged
  /\ tasks' = <<>>
  /\ pc' = "finally"
  /\ UNCHANGED <<exitCode, scanVars, codecVars, dnsVars, httpVars, filePosition>>
  /\ UNCHANGED <<db, fileBytes, fileExists, command, fileHandle, pageSize, tables, reads, error,
                 stderr>>

\* trees with two and three scanned children and a tree of two levels,
\* whole and with a leaf that does not decode
ConcTrees ==
  {<<InteriorPage(<<3, 4>>, 5), LeafPage(<<1, 2>>), LeafPage(<<3>>), LeafPage(<<>>)>>,
   <<InteriorPage(<<3, 4, 5>>, 6), LeafPage(<<1>>), LeafPage(<<2>>), LeafPage(<<3>>),
     LeafPage(<<>>)>>,
   <<InteriorPage(<<3, 4>>, 5), InteriorPage(<<6, 7>>, 8), LeafPage(<<3>>), LeafPage(<<>>),
     LeafPage(<<1>>), LeafPage(<<2>>), LeafPage(<<>>)>>}
ConcDatabases ==
  {Database(tp, "ipk-null", d) :
     tp \in ConcTrees, d \in {NoDamage, Damage("serial", 4, 11), Damage("pagetype", 3, 10)}}

ConcCommands ==
  {Select(<<"count(*)">>, StrApples, <<>>),
   Select(<<"name">>, StrApples, <<>>),
   Select(<<"name", "id">>, StrApples, WhereId(Num(1)))}

\* main has opened the file and the query is about to run
ConcInit ==
  /\ db \in ConcDatabases
  /\ fileBytes = Damaged(WriteFile(db.pages, db.variant, PageSize), db.damage, PageSize)
  /\ fileExists = TRUE
  /\ command \in ConcCommands
  /\ pc = "header"
  /\ fileHandle = "open"
  /\ pageSize = 0
  /\ tables = <<>>
  /\ select = NotRun
  /\ reads = <<>>
  /\ error = NoErr
  /\ stdout = <<>>
  /\ stderr = <<>>
  /\ exitCode = 0
  /\ stack = <<>>
  /\ tasks = <<>>
  /\ filePosition = 0
  /\ queries = <<>>
  /\ forwarded = <<>>
  /\ answers = <<>>
  /\ responses = <<>>
  /\ connection = NotConnected
  /\ call = NoCall
  /\ ret = NotReturned

ConcNext ==
  \/ ReadDatabaseHeader
  \/ ReadTableSchemas
  \/ ConcStart
  \/ TaskRead
  \/ TaskJoin
  \/ ConcFinish
  \/ Catch
  \/ Finally

ConcSpec == ConcInit /\ [][ConcNext]_vars

\* C24: the scan has no state shared between calls: when the scans of the
\* children of an interior page run concurrently, in any interleaving, and
\* their rows are merged in cell order, the rows returned are those of the
\* sequential scan from left to right.
C24_ConcurrentScanSameRows ==
  (pc \in {"finally", "done"} \/ (pc = "catch" /\ tasks = <<>>))
  => Let(readTableRows(fileBytes, MapGet(ApplesEntry, "rootPage").n, pageSize,
                       ApplesColumns.columns, ApplesColumns.identityColumn),
         LAMBDA seq : /\ (select.err = NoErr /\ error = NoErr) <=> seq.err = NoErr
                      /\ seq.err = NoErr => select.rows = seq.rows
                      /\ seq.err # NoErr => select = NotRun)

\* the read of the third child completed first, and the rows are in cell order
C24_Witness ==
  /\ pc = "done"
  /\ Len(db.pages) = 5
  /\ db.damage = NoDamage
  /\ Len(reads) = 6
  /\ reads[4] = 4 * PageSize
  /\ reads[6] = 2 * PageSize
  /\ CellRowIds(select.rows) = <<1, 2, 3>>

(***************************************************************************)
(* The codecs on their own: one call of readVarInt or of readValue on a    *)
(* buffer, `call` holding the arguments and `ret` what the call returned.  *)
(***************************************************************************)
ValueBits == 64
MaxOffset == 1
MaxPayload == 3
MaxColumns == 3

\* n bytes that belong to a neighbouring field
Padding(n) == [i \in 1..n |-> 255]

\* how many of the low k bits lie in the limb that starts at bit `from`
BitsIn(k, from) == Min(Max(k - from, 0), LimbBits)

\* 2^k - 1
Ones(k) ==
  <<2 ^ BitsIn(k, 2 * LimbBits) - 1, 2 ^ BitsIn(k, LimbBits) - 1, 2 ^ BitsIn(k, 0) - 1>>

\* integers of [0, 2^64) around every length of the encoding: 2^k - 1, 2^k
\* and 2^k + 1, the largest one, and values with a low byte of every shape
VarIntValues ==
  {WideShiftAdd(Ones(k), 1, d) : k \in 0..(ValueBits - 1), d \in 0..2}
    \cup {Ones(ValueBits)}
    \cup {WideShiftAdd(Ones(k), 256, d) : k \in 0..(ValueBits - 8), d \in {0, 85, 170}}

\* readVarInt(buffer, offset) on the canonical encoding of x
VarIntCall(x, offset) ==
  [fn |-> "readVarInt", x |-> x, offset |-> offset,
   buffer |-> Padding(offset) \o WriteVarInt64(x) \o Padding(1)]

\* readValue(buffer, cursor, serialType) on a value stored as `bytes`
ValueCall(bytes, cursor, serialType) ==
  [fn |-> "readValue", bytes |-> bytes, cursor |-> cursor, serialType |-> serialType,
   buffer |-> Padding(cursor) \o bytes \o Padding(1)]

\* the width in bytes of an integer serial type
IntegerWidth(serialType) ==
  CASE serialType = 1 -> 1 [] serialType = 2 -> 2 [] serialType = 3 -> 3
    [] serialType = 4 -> 4 [] serialType = 5 -> 6 [] OTHER -> 8

\* stored integers of a width: up to three low bytes, the rest zero, and the
\* largest value of four bytes that the checker's integers hold
LowBytes ==
  UNION {[1..n -> {0, 1, 127, 128, 255}] : n \in 1..3}
StoredIntegers(width) ==
  {Zeros(width - Len(t)) \o t : t \in {u \in LowBytes : Len(u) <= width}}
    \cup (IF width >= 4 THEN {Zeros(width - 4) \o <<127, 255, 255, 255>>} ELSE {})

\* stored blobs and texts (texts are ASCII) of a length
StoredPayloads(serialType, length) ==
  [1..length -> IF serialType % 2 = 0 THEN {0, 200} ELSE {65, 122}]

\* serial types that decode to null or have no decoding rule
OtherSerialTypes == {-2, -1, 0, 8, 9, 10, 11}

\* stored column values, one of them with a serial type that has no rule
StoredUnknown(serialType) == [st |-> serialType, bytes |-> <<>>]
StoredValues ==
  {StoredNull, StoredInt8(5), StoredText(<<65>>), StoredUnknown(8), StoredUnknown(10),
   StoredUnknown(11)}
ColumnNames == <<"a", "b", "c", "d">>

\* parseRecord(buffer, columns) on the record that stores `stored`
RecordCall(stored, columns) ==
  [fn |-> "parseRecord", stored |-> stored, columns |-> columns,
   buffer |-> WriteRecord(stored)]

\* readCell(pageType, buffer, cellPointer) on a cell with a payload of
\* recordSize bytes of which the buffer holds the first `held`
CellCall(pageType, cellPointer, rowId, recordSize, held) ==
  [fn |-> "readCell", pageType |-> pageType, cellPointer |-> cellPointer, rowId |-> rowId,
   recordSize |-> recordSize, held |-> held,
   buffer |-> Padding(cellPointer) \o WriteVarInt(recordSize)
              \o (IF pageType \in {13, 5} THEN WriteVarInt(rowId) ELSE <<>>)
              \o [i \in 1..held |-> i]
              \o (IF held = recordSize THEN Padding(1) ELSE <<>>)]

CodecCalls ==
  {VarIntCall(x, o) : x \in VarIntValues, o \in 0..MaxOffset}
    \cup UNION {{ValueCall(b, c, st) : b \in StoredIntegers(IntegerWidth(st)),
                                       c \in 0..MaxOffset} : st \in 1..7}
    \cup UNION {{ValueCall(b, c, st) : b \in StoredPayloads(st, (st - 12) \div 2),
                                       c \in 0..MaxOffset}
                : st \in 12..(13 + 2 * MaxPayload)}
    \cup {ValueCall(b, c, st) : b \in {<<>>, <<1>>}, c \in 0..MaxOffset, st \in OtherSerialTypes}
    \cup UNION {{RecordCall(stored, SubSeq(ColumnNames, 1, k))
                   : stored \in [1..n -> StoredValues], k \in 0..MaxColumns}
                : n \in 0..MaxColumns}
    \cup {CellCall(pt, o, r, n, h) : pt \in {13, 5, 10, 2}, o \in 0..MaxOffset, r \in {1, 200},
                                     n \in 0..MaxPayload, h \in 0..MaxPayload}

CodecInit ==
  /\ call \in CodecCalls
  /\ ret = NotReturned
  /\ db = Database(<<LeafPage(<<>>)>>, "ipk-null", NoDamage)
  /\ fileBytes = <<>>
  /\ fileExists = FALSE
  /\ command = Other("other")
  /\ pc = "open"
  /\ fileHandle = "none"
  /\ pageSize = 0
  /\ tables = <<>>
  /\ select = NotRun
  /\ reads = <<>>
  /\ error = NoErr
  /\ stdout = <<>>
  /\ stderr = <<>>
  /\ exitCode = 0
  /\ stack = <<>>
  /\ tasks = <<>>
  /\ filePosition = 0
  /\ queries = <<>>
  /\ forwarded = <<>>
  /\ answers = <<>>
  /\ responses = <<>>
  /\ connection = NotConnected

CallReadVarInt ==
  /\ call.fn = "readVarInt"
  /\ ret = NotReturned
  /\ ret' = readVarInt64(call.buffer, call.offset)
  /\ UNCHANGED <<db, fileBytes, fileExists, command, pc, fileHandle, pageSize, tables,
                 select, reads, error, stdout, stderr, exitCode, scanVars, concVars, dnsVars, httpVars, call>>

CallReadValue ==
  /\ call.fn = "readValue"
  /\ ret = NotReturned
  /\ ret' = readValue(call.buffer, call.cursor, call.serialType)
  /\ UNCHANGED <<db, fileBytes, fileExists, command, pc, fileHandle, pageSize, tables,
                 select, reads, error, stdout, stderr, exitCode, scanVars, concVars, dnsVars, httpVars, call>>

CallParseRecord ==
  /\ call.fn = "parseRecord"
  /\ ret = NotReturned
  /\ ret' = parseRecord(call.buffer, call.columns)
  /\ UNCHANGED <<db, fileBytes, fileExists, command, pc, fileHandle, pageSize, tables,
                 select, reads, error, stdout, stderr, exitCode, scanVars, concVars, dnsVars, httpVars, call>>

CallReadCell ==
  /\ call.fn = "readCell"
  /\ ret = NotReturned
  /\ ret' = readCell(call.pageType, call.buffer, call.cellPointer)
  /\ UNCHANGED <<db, fileBytes, fileExists, command, pc, fileHandle, pageSize, tables,
                 select, reads, error, stdout, stderr, exitCode, scanVars, concVars, dnsVars, httpVars, call>>

CodecNext == CallReadVarInt \/ CallReadValue \/ CallParseRecord \/ CallReadCell

CodecSpec == CodecInit /\ [][CodecNext]_vars

Returned == ret # NotReturned

\* C18: VarInt round trip: for every integer x of [0, 2^64), decoding the
\* canonical encoding of x at its offset returns the value x and consumes
\* exactly the bytes of the encoding, 1 to 9 of them.
C18_VarIntRoundTrip ==
  (call.fn = "readVarInt" /\ Returned)
  => /\ Len(WriteVarInt64(call.x)) \in 1..9
     /\ ret = [err |-> NoErr, wide |-> call.x, bytesRead |-> Len(WriteVarInt64(call.x))]

\* the largest value, 2^64 - 1, was decoded from its nine bytes
C18_Witness ==
  /\ call.fn = "readVarInt" /\ Returned
  /\ call.x = Ones(ValueBits)
  /\ call.buffer = Padding(call.offset) \o Padding(9) \o Padding(1)
  /\ ret.err = NoErr /\ ret.bytesRead = 9 /\ ret.wide = Ones(ValueBits)

\* the value of `width` bytes read as a two's complement number
TwosComplement(unsigned, width) ==
  IF unsigned >= 2 ^ (8 * width - 1) THEN unsigned - 2 ^ (8 * width) ELSE unsigned

\* C19: readValue decodes the integer serial types with the stated width
\* and signedness: types 1 and 2 as signed integers of 1 and 2 bytes, types
\* 3, 4, 5 as unsigned integers of 3, 4, 6 bytes and types 6 and 7 as an
\* unsigned integer of 8 bytes, all big-endian, and advances the cursor by
\* exactly that width.
C19_IntegerWidths ==
  (call.fn = "readValue" /\ call.serialType \in 1..7 /\ Returned)
  => /\ ret.err = NoErr
     /\ ret.newCursor = call.cursor + IntegerWidth(call.serialType)
     /\ ret.value.n =
          IF call.serialType \in {1, 2}
          THEN TwosComplement(BigEndian(call.bytes, 0, Len(call.bytes)), Len(call.bytes))
          ELSE BigEndian(call.bytes, 0, Len(call.bytes))

\* C20: for every serial type s >= 12 readValue returns a blob of (s-12)/2
\* bytes when s is even and a text of (s-13)/2 bytes when s is odd, the
\* empty blob for s = 12 and the empty text for s = 13, and advances the
\* cursor by that length.
C20_BlobAndText ==
  (call.fn = "readValue" /\ call.serialType >= 12 /\ Returned)
  => /\ ret.err = NoErr
     /\ ret.newCursor = call.cursor + Len(call.bytes)
     /\ ret.value = IF call.serialType % 2 = 0 THEN Blob(call.bytes) ELSE Text(call.bytes)

\* C21: readValue returns null without advancing the cursor for the serial
\* types 0, 8 and 9 and raises the unknown-serial-type error for every
\* serial type without a decoding rule (10, 11, negative values); parseRecord
\* returns no record when a column has such a serial type.
C21_NullAndUnknownSerialTypes ==
  /\ (call.fn = "readValue" /\ call.serialType \in {0, 8, 9} /\ Returned)
     => ret = ValueResult(Null, call.cursor)
  /\ (call.fn = "readValue" /\ Returned /\ (call.serialType \in {10, 11} \/ call.serialType < 0))
     => ret = Throw(ErrSerial)
  /\ (call.fn = "parseRecord" /\ Returned /\ Len(call.stored) = Len(call.columns)
        /\ \E i \in 1..Len(call.stored) : call.stored[i].st \in {10, 11})
     => ret = Throw(ErrSerial)

\* a record whose second column has serial type 10 was given to parseRecord
C21_Witness ==
  /\ call.fn = "parseRecord" /\ Returned
  /\ call.stored = <<StoredInt8(5), StoredUnknown(10)>>
  /\ call.columns = <<"a", "b">>
  /\ ret = Throw(ErrSerial)

\* C22: readCell reads the record-size varint, reads a rowid varint only on
\* table pages and returns a payload of exactly recordSize bytes that starts
\* right after those varints, for every cell pointer and every recordSize,
\* also one that extends past the end of the page buffer.
C22_CellPayload ==
  (call.fn = "readCell" /\ Returned)
  => /\ ret.err = NoErr
     /\ ret.rowId = (IF call.pageType \in {13, 5} THEN Num(call.rowId) ELSE Undefined)
     /\ Len(ret.record) = call.recordSize
     /\ \A i \in 1..Min(call.held, call.recordSize) : ret.record[i] = i

\* C26: in parseRecord the cursor after one serial-type varint per column
\* name equals the header length the record's first varint states, also
\* when the record stores fewer or more columns than there are names.
C26_ValuesStartAtHeaderLength ==
  (call.fn = "parseRecord" /\ Returned)
  => LET h == readVarInt(call.buffer, 0)
         s == ReadSerialTypes(call.buffer, call.columns, 1, h.bytesRead, EmptyMap)
     IN  s.err = NoErr => s.cursor = h.value

(***************************************************************************)
(* The DNS forwarder (src/unnamed/part_001): every client query is         *)
(* forwarded to the upstream server one question at a time, the answers    *)
(* that come back are collected in state.answers, and a timer set for each *)
(* client query polls state.answers and replies to the client.             *)
(***************************************************************************)
MaxQueries == 2
MaxQuestions == 2

sqliteVars == <<db, fileBytes, fileExists, command, pc, fileHandle, pageSize, tables, select,
                reads, error, stdout, stderr, exitCode, scanVars, codecVars, concVars>>

\* the SQLite program is not run
SqliteIdle ==
  /\ db = Database(<<LeafPage(<<>>)>>, "ipk-null", NoDamage)
  /\ fileBytes = <<>>
  /\ fileExists = FALSE
  /\ command = Other("other")
  /\ pc = "open"
  /\ fileHandle = "none"
  /\ pageSize = 0
  /\ tables = <<>>
  /\ select = NotRun
  /\ reads = <<>>
  /\ error = NoErr
  /\ stdout = <<>>
  /\ stderr = <<>>
  /\ exitCode = 0
  /\ stack = <<>>
  /\ tasks = <<>>
  /\ filePosition = 0
  /\ call = NoCall
  /\ ret = NotReturned

Clients == {"client A", "client B"}
Names == {"a.example", "b.example"}
\* Math.floor(Math.random() * 65536): the smallest and the largest outcome
PacketIdentifiers == {0, 65535}

\* the question sections a client sends: up to MaxQuestions different names
QuestionLists ==
  {questions \in UNION {[1..n -> Names] : n \in 1..MaxQuestions} :
     \A i, j \in 1..Len(questions) : questions[i] = questions[j] => i = j}

\* parseHeader on a client's standard query: the fields the response uses
QueryHeader(packetIdentifier, questions) ==
  [packetIdentifier |-> packetIdentifier, operationCode |-> 0, recursionDesired |-> 1,
   questionCount |-> Len(questions)]

\* the request queryForwardingDnsServer sends for question i of a query; the
\* field query records the client query it was sent for, which the packet
\* itself does not carry
ForwardedRequest(packetIdentifier, question, query) ==
  [packetIdentifier |-> packetIdentifier, questionName |-> question, query |-> query,
   answered |-> FALSE]

queryForwardingDnsServer(questions, packetIdentifiers, query) ==
  [i \in 1..Len(questions) |-> ForwardedRequest(packetIdentifiers[i], questions[i], query)]

\* the address record the upstream server holds for a name
AddressOf(name) == IF name = "a.example" THEN <<10, 0, 0, 1>> ELSE <<10, 0, 0, 2>>

\* parseAnswer on the upstream server's reply to forwarded request i
parseAnswer(i) ==
  [questionName |-> forwarded[i].questionName, answerType |-> 1, answerClass |-> 1,
   answerData |-> AddressOf(forwarded[i].questionName), request |-> i]

\* constructResponseHeader: the fields written, answer count included
constructResponseHeader(header) ==
  [packetIdentifier |-> header.packetIdentifier,
   queryOrResponseIndicator |-> 1,
   operationCode |-> header.operationCode,
   recursionDesired |-> header.recursionDesired,
   responseCode |-> IF header.operationCode = 0 THEN 0 ELSE 4,
   questionCount |-> header.questionCount,
   answerRecordCount |-> header.questionCount]

\* constructAnswers: one record per element of the list it is given
constructAnswers(list) == [i \in 1..Len(list) |-> list[i]]

\* udpSocket.on('message'): a client query arrives, its questions are
\* forwarded and its polling timer is set
ClientMessage ==
  /\ Len(queries) < MaxQueries
  /\ \E rinfo \in Clients, questions \in QuestionLists :
       \E packetIdentifiers \in [1..Len(questions) -> PacketIdentifiers] :
         /\ queries' = Append(queries, [rinfo |-> rinfo,
                                        header |-> QueryHeader(Len(queries) + 1, questions),
                                        questions |-> questions,
                                        interval |-> "set"])
         /\ forwarded' = forwarded \o queryForwardingDnsServer(questions, packetIdentifiers,
                                                               Len(queries) + 1)
  /\ UNCHANGED <<sqliteVars, httpVars, answers, responses>>

\* querySocket.on('message'): the upstream server's reply to one forwarded
\* request arrives; replies arrive in any order
QueryMessage ==
  /\ \E i \in 1..Len(forwarded) :
       /\ ~forwarded[i].answered
       /\ forwarded' = [forwarded EXCEPT ![i].answered = TRUE]
       /\ answers' = Append(answers, parseAnswer(i))
  /\ UNCHANGED <<sqliteVars, httpVars, queries, responses>>

\* the callback of setInterval of client query q
IntervalTick(q) ==
  /\ q \in 1..Len(queries)
  /\ queries[q].interval = "set"
  /\ IF Len(answers) > 0
     THEN /\ queries' = [queries EXCEPT ![q].interval = "cleared"]
          /\ responses' = Append(responses,
                                 [query |-> q,
                                  rinfo |-> queries[q].rinfo,
                                  header |-> constructResponseHeader(queries[q].header),
                                  questions |-> queries[q].questions,
                                  answers |-> constructAnswers(answers)])
          /\ answers' = <<>>
     ELSE UNCHANGED <<queries, responses, answers>>
  /\ UNCHANGED <<sqliteVars, httpVars, forwarded>>

DnsInit ==
  /\ SqliteIdle
  /\ queries = <<>>
  /\ forwarded = <<>>
  /\ answers = <<>>
  /\ responses = <<>>
  /\ connection = NotConnected

DnsNext ==
  \/ ClientMessage
  \/ QueryMessage
  \/ \E q \in 1..MaxQueries : IntervalTick(q)

\* the upstream server answers every forwarded request and every timer that
\* is set keeps firing
DnsSpec ==
  /\ DnsInit
  /\ [][DnsNext]_vars
  /\ WF_vars(QueryMessage)
  /\ \A q \in 1..MaxQueries : WF_vars(IntervalTick(q))

\* C27: with two or more client queries in flight, every response sent to a
\* client contains only answers to the questions of that client's query: an
\* answer the upstream server gave to a request forwarded for one client's
\* query is never in the response to another's.
C27_OnlyOwnAnswers ==
  \A r \in 1..Len(responses) :
    \A a \in 1..Len(responses[r].answers) :
      forwarded[responses[r].answers[a].request].query = responses[r].query

\* C28: when the upstream server answers every forwarded question, every
\* client query eventually receives a response, whatever the interleaving of
\* client queries, upstream answers and timer ticks.
C28_EveryQueryAnswered ==
  \A q \in 1..MaxQueries :
    (Len(queries) >= q) ~> (\E r \in 1..Len(responses) : responses[r].query = q)

\* C29: every response carries exactly one answer record per question of the
\* request, so the answer count of its header equals the number of answer
\* records in it, also when the answers to several questions arrive at
\* different times.
C29_OneAnswerPerQuestion ==
  \A r \in 1..Len(responses) :
    /\ Len(responses[r].answers) = Len(responses[r].questions)
    /\ responses[r].header.answerRecordCount = Len(responses[r].answers)
    /\ \A i \in 1..Len(responses[r].questions) :
         responses[r].answers[i].questionName = responses[r].questions[i]

(***************************************************************************)
(* The HTTP server (src/unnamed/part_002): one client connection.  The     *)
(* buffer of the connection is kept as the list of complete raw requests   *)
(* in it, each ended by an empty line; the requests have no body.          *)
(***************************************************************************)
MaxPipelined == 2
MaxExchanges == 3

\* String.prototype.toLowerCase on the header names and values that occur
ToLowerCase(str) ==
  CASE str = "Connection" -> "connection"
    [] str = "Close" -> "close"
    [] str = "User-Agent" -> "user-agent"
    [] OTHER -> str

RawRequest(method, requestPath, headerLines) ==
  [method |-> method, path |-> requestPath, headerLines |-> headerLines]

\* HttpRequest.parseRequest: the header names in lower case, a later line
\* of the same name replacing an earlier one
parseRequest(rawRequest) ==
  [method |-> rawRequest.method,
   path |-> rawRequest.path,
   headers |-> [key \in {ToLowerCase(rawRequest.headerLines[i][1]) :
                           i \in 1..Len(rawRequest.headerLines)} |->
                  rawRequest.headerLines[
                    CHOOSE i \in 1..Len(rawRequest.headerLines) :
                      /\ ToLowerCase(rawRequest.headerLines[i][1]) = key
                      /\ \A j \in 1..Len(rawRequest.headerLines) :
                           ToLowerCase(rawRequest.headerLines[j][1]) = key => j <= i][2]]]

\* HttpRequest.getHeader: null for a header the request does not have
getHeader(request, name) ==
  IF ToLowerCase(name) \in DOMAIN request.headers
  THEN Text(request.headers[ToLowerCase(name)])
  ELSE Null

\* new HttpResponse(statusCode) and setBody(body)
HttpResponse(statusCode, body) ==
  [statusCode |-> statusCode, connection |-> Undefined, body |-> body]

\* RequestHandler.handleRequest for the routes that read no file
handleRequest(request) ==
  IF request.path \in {"/", "/index.html"} THEN HttpResponse(200, "Hello, World!")
  ELSE IF request.path = "/echo/abc" THEN HttpResponse(200, "abc")
  ELSE IF request.path = "/user-agent"
  THEN IF getHeader(request, "user-agent") = Null
       THEN HttpResponse(500, "Internal server error")
       ELSE HttpResponse(200, getHeader(request, "user-agent").b)
  ELSE HttpResponse(404, "Page not found")

\* HttpRequest.isConnectionClose: getHeader(...).toLowerCase() throws a
\* TypeError when the request has no Connection header
isConnectionClose(request) ==
  IF getHeader(request, "connection") = Null THEN [err |-> ErrType, value |-> FALSE]
  ELSE [err |-> NoErr, value |-> ToLowerCase(getHeader(request, "connection").b) = "close"]

\* socket.write(...) for one request, then socket.end() when `end`: a write
\* to a socket already ended sends nothing
Exchange(c, rawRequest, response, end, failed) ==
  [c EXCEPT !.state = IF end THEN "ended" ELSE @,
            !.exchanges = Append(@, [request |-> rawRequest,
                                     written |-> IF c.state = "open" THEN <<response>>
                                                 ELSE <<>>,
                                     failed |-> failed,
                                     state |-> IF end THEN "ended" ELSE c.state])]

\* the response of the catch block: its head only, the body is not written
ErrorHead == HttpResponse(500, "")

\* the body of the while loop for the first request of the buffer; `more`
\* tells whether the loop goes on
ProcessRequest(c, rawRequest, closes, response) ==
  IF closes.err # NoErr
  THEN [c |-> Exchange(c, rawRequest, ErrorHead, TRUE, TRUE), more |-> TRUE]
  ELSE IF closes.value
  THEN [c |-> Exchange(c, rawRequest, [response EXCEPT !.connection = Text("close")],
                       TRUE, FALSE),
        more |-> FALSE]
  ELSE [c |-> Exchange(c, rawRequest, response, FALSE, FALSE), more |-> TRUE]

\* while (buffer.includes('\r\n\r\n')) { ... }
RECURSIVE RequestLoop(_)
RequestLoop(c) ==
  IF c.buffer = <<>> THEN c
  ELSE Let(ProcessRequest([c EXCEPT !.buffer = Tail(@)], Head(c.buffer),
                          isConnectionClose(parseRequest(Head(c.buffer))),
                          handleRequest(parseRequest(Head(c.buffer)))),
           LAMBDA r : IF r.more THEN RequestLoop(r.c) ELSE r.c)

Paths == {"/", "/echo/abc", "/user-agent", "/missing"}
HeaderLineSets ==
  {<<>>,
   <<<<"Connection", "keep-alive">>>>,
   <<<<"Connection", "close">>>>,
   <<<<"connection", "Close">>>>,
   <<<<"User-Agent", "curl">>, <<"Connection", "keep-alive">>>>}
RawRequests == {RawRequest("GET", p, h) : p \in Paths, h \in HeaderLineSets}

\* what one 'data' event carries: up to MaxPipelined complete requests
Chunks == UNION {[1..n -> RawRequests] : n \in 1..MaxPipelined}

\* net.createServer's callback: a client connects, its buffer is empty
Connect ==
  /\ connection = NotConnected
  /\ connection' = [state |-> "open", buffer |-> <<>>, exchanges |-> <<>>]
  /\ UNCHANGED <<sqliteVars, dnsVars>>

\* socket.on('data'): the data is added to the buffer and every complete
\* request of the buffer is processed
SocketData ==
  /\ connection # NotConnected
  /\ Len(connection.exchanges) + Len(connection.buffer) < MaxExchanges
  /\ \E data \in Chunks :
       connection' = RequestLoop([connection EXCEPT !.buffer = @ \o data])
  /\ UNCHANGED <<sqliteVars, dnsVars>>

HttpInit ==
  /\ SqliteIdle
  /\ queries = <<>>
  /\ forwarded = <<>>
  /\ answers = <<>>
  /\ responses = <<>>
  /\ connection = NotConnected

HttpNext ==
  \/ Connect
  \/ SocketData

HttpSpec == HttpInit /\ [][HttpNext]_vars

\* the request carries a Connection header that says close
SaysClose(rawRequest) ==
  \E i \in 1..Len(rawRequest.headerLines) :
    /\ ToLowerCase(rawRequest.headerLines[i][1]) = "connection"
    /\ ToLowerCase(rawRequest.headerLines[i][2]) = "close"

\* C30: a request without 'Connection: close' receives exactly the response
\* of its route handler and the connection stays open for further requests;
\* the socket is ended only after a request carrying 'Connection: close' or
\* after a processing error; exactly one response is written per request.
C30_PersistentConnection ==
  connection # NotConnected =>
    \A i \in 1..Len(connection.exchanges) :
      /\ ~SaysClose(connection.exchanges[i].request)
         => /\ connection.exchanges[i].written =
                 <<handleRequest(parseRequest(connection.exchanges[i].request))>>
            /\ connection.exchanges[i].state = "open"
      /\ connection.exchanges[i].state = "ended"
         => \E j \in 1..i : \/ SaysClose(connection.exchanges[j].request)
                            \/ connection.exchanges[j].failed
      /\ Len(connection.exchanges[i].written) = 1

====
